---- MODULE Spec2Model ----
(***************************************************************************)
(* anydraw: collaborative drawing.  Clients (draw/Game.ts) keep an ordered *)
(* Shape Store and talk over one WebSocket each to the relay               *)
(* (apps/ws-backend/src/index.ts), which persists through Prisma and       *)
(* rebroadcasts.  The bootstrap read goes through the HTTP backend         *)
(* (GET /chats/:roomId).                                                   *)
(***************************************************************************)
EXTENDS Integers, Sequences, FiniteSets, TLC

\* ------------------------------------------------------------------ bounds
\* Number of environment events in one behaviour: gestures that send a message
\* and failures of the database or of the bootstrap request.
MaxOps == 2
\* Number of frames the server side delivers to a Game observed on its own.
MaxFrames == 2
\* Number of entries of User.rooms a connection may reach by joining again.
MaxJoins == 2
\* Number of connections one client opens in one behaviour.
MaxConnects == 2
\* Granularity of the relay's clock and the time it runs to (ms).
TimeStep == 15000
MaxTime == 105000

\* ------------------------------------------------------------------ values
Clients == {"c1", "c2"}
\* Game.roomId of both clients; the room owns the persisted history.
Room == "1"
\* Values Date.now() may return at a gesture end (a wall clock: it may repeat).
Stamps == {1, 2}
\* World x coordinates where a creation gesture may start.
Xs == {0}
\* Pointer positions (world = screen: camera 0, zoom 1) of select / erase clicks.
Pointers == {[x |-> 20, y |-> 20]}
\* Pointer displacement of a drag of the selected shape.
Deltas == {-50, 50}

Undefined == "undefined"
Null == "null"
NaN == -1

NoShape == [type |-> "none", x |-> 0, y |-> 0, width |-> 0, height |-> 0]
\* mouseUpHandler, tool rect: gesture from (x, 0) to (x + 40, 40).
Rect(x) == [type |-> "rect", x |-> x, y |-> 0, width |-> 40, height |-> 40]

\* The other shapes a drag gesture creates (mouseUpHandler): the fields the
\* hit tests and the resize read.
RectOf(x, y, w, h) == [type |-> "rect", x |-> x, y |-> y, width |-> w, height |-> h]
Circle(cx, cy, r) == [type |-> "circle", centerX |-> cx, centerY |-> cy, radius |-> r]
Diamond(cx, cy, w, h) ==
  [type |-> "diamond", centerX |-> cx, centerY |-> cy, width |-> w, height |-> h]
\* type is "line" or "arrow"; strokeWidth is Game.defaultStrokeWidth.
Segment(type, x1, y1, x2, y2) ==
  [type |-> type, startX |-> x1, startY |-> y1, endX |-> x2, endY |-> y2, strokeWidth |-> 2]

\* ------------------------------------------------------------------ conversions
Digits == <<"0", "1", "2", "3", "4", "5", "6", "7", "8", "9">>

RECURSIVE NatToStr(_)
\* JS String(n) of a non-negative integer.
NatToStr(n) ==
  IF n < 10 THEN Digits[n + 1]
  ELSE NatToStr(n \div 10) \o Digits[(n % 10) + 1]

\* Numbers whose decimal form an id of this model can have.
NumRange == 0 .. (MaxOps + 20)

\* JS Number(s) of a string: the number it spells, NaN otherwise.
Number(s) ==
  IF \E n \in NumRange : NatToStr(n) = s
  THEN CHOOSE n \in NumRange : NatToStr(n) = s
  ELSE NaN

\* `pending-${Date.now()}`
PendingId(t) == "pending-" \o NatToStr(t)

\* ------------------------------------------------------------------ sequences
\* Array.prototype.filter is SelectSeq of the Sequences module.

\* Array.prototype.findIndex, 1-based; 0 when no element matches (JS -1).
FindIndex(s, Test(_)) ==
  IF \E i \in 1 .. Len(s) : Test(s[i])
  THEN CHOOSE i \in 1 .. Len(s) : Test(s[i]) /\ \A j \in 1 .. (i - 1) : ~Test(s[j])
  ELSE 0

\* Array.prototype.map(s => s.id)
Ids(s) == [i \in 1 .. Len(s) |-> s[i].id]

\* Array.prototype.splice(idx, 1)
RemoveAt(s, idx) == [i \in 1 .. (Len(s) - 1) |-> IF i < idx THEN s[i] ELSE s[i + 1]]

\* ------------------------------------------------------------------ hit tests
Abs(n) == IF n < 0 THEN -n ELSE n
Min(a, b) == IF a < b THEN a ELSE b
Max(a, b) == IF a > b THEN a ELSE b

\* select.ts pointInShape, line and arrow: the distance from (x, y) to the
\* segment is at most padding + strokeWidth. Compared as squares: beyond an
\* end of the segment the distance is the one to that end, between the ends
\* it is |A * D - B * C| / sqrt(len2).
pointNearSegment(x, y, shape) ==
  LET A == x - shape.startX
      B == y - shape.startY
      C == shape.endX - shape.startX
      D == shape.endY - shape.startY
      dot == A * C + B * D
      len2 == C * C + D * D
      reach == 6 + shape.strokeWidth
  IN  IF len2 = 0 \/ dot < 0 THEN A * A + B * B <= reach * reach
      ELSE IF dot > len2
      THEN (x - shape.endX) * (x - shape.endX) + (y - shape.endY) * (y - shape.endY)
             <= reach * reach
      ELSE (A * D - B * C) * (A * D - B * C) <= reach * reach * len2

\* select.ts pointInShape, rect, circle, diamond, line and arrow, padding = 6
\* (the coordinates of this model are even, so width / 2 is exact).
pointInShape(x, y, shape) ==
  CASE shape.type = "rect" ->
         /\ x >= shape.x - 6
         /\ x <= shape.x + shape.width + 6
         /\ y >= shape.y - 6
         /\ y <= shape.y + shape.height + 6
    [] shape.type = "circle" ->
         (x - shape.centerX) * (x - shape.centerX) + (y - shape.centerY) * (y - shape.centerY)
           <= (Abs(shape.radius) + 6) * (Abs(shape.radius) + 6)
    [] shape.type = "diamond" ->
         /\ x >= shape.centerX - ((shape.width \div 2) + 6)
         /\ x <= shape.centerX + ((shape.width \div 2) + 6)
         /\ y >= shape.centerY - ((shape.height \div 2) + 6)
         /\ y <= shape.centerY + ((shape.height \div 2) + 6)
    [] shape.type \in {"line", "arrow"} -> pointNearSegment(x, y, shape)
    [] OTHER -> FALSE

\* select.ts bboxOf (and ResizeTool.bbox, which is the same function): rect,
\* circle, diamond, line and arrow.
bboxOf(shape) ==
  CASE shape.type = "rect" ->
         [x |-> shape.x, y |-> shape.y, w |-> shape.width, h |-> shape.height]
    [] shape.type = "circle" ->
         [x |-> shape.centerX - Abs(shape.radius), y |-> shape.centerY - Abs(shape.radius),
          w |-> 2 * Abs(shape.radius), h |-> 2 * Abs(shape.radius)]
    [] shape.type = "diamond" ->
         [x |-> shape.centerX - (shape.width \div 2),
          y |-> shape.centerY - (shape.height \div 2),
          w |-> shape.width, h |-> shape.height]
    [] shape.type \in {"line", "arrow"} ->
         [x |-> Min(shape.startX, shape.endX), y |-> Min(shape.startY, shape.endY),
          w |-> Abs(shape.endX - shape.startX), h |-> Abs(shape.endY - shape.startY)]
    [] OTHER -> [x |-> 0, y |-> 0, w |-> 0, h |-> 0]

HandleNames == <<"nw", "n", "ne", "e", "se", "s", "sw", "w">>

\* select.ts handlesFor (w and h even here, so w / 2 is exact)
handlesFor(bbox) ==
  LET cx == bbox.x + (bbox.w \div 2)
      cy == bbox.y + (bbox.h \div 2)
  IN  [nw |-> [x |-> bbox.x, y |-> bbox.y],
       n  |-> [x |-> cx, y |-> bbox.y],
       ne |-> [x |-> bbox.x + bbox.w, y |-> bbox.y],
       e  |-> [x |-> bbox.x + bbox.w, y |-> cy],
       se |-> [x |-> bbox.x + bbox.w, y |-> bbox.y + bbox.h],
       s  |-> [x |-> cx, y |-> bbox.y + bbox.h],
       sw |-> [x |-> bbox.x, y |-> bbox.y + bbox.h],
       w  |-> [x |-> bbox.x, y |-> cy]]

\* The handle of `shape` under (x, y), "none" when there is none (half = 5).
handleAt(x, y, shape) ==
  LET hs == handlesFor(bboxOf(shape))
      hit(k) == Abs(x - hs[k].x) <= 5 /\ Abs(y - hs[k].y) <= 5
      i == FindIndex(HandleNames, hit)
  IN  IF i = 0 THEN "none" ELSE HandleNames[i]

\* What one entry answers to SelectTool.findAt: "handle", "inside" or "none".
partAt(x, y, shape) ==
  IF shape.type = "none" THEN "none"
  ELSE IF handleAt(x, y, shape) # "none" THEN "handle"
  ELSE IF pointInShape(x, y, shape) THEN "inside"
  ELSE "none"

\* Index of the entry a top-down scan (i = length - 1 .. 0) stops at, 0 if none.
TopmostIndex(stored, Hit(_)) ==
  IF \E i \in 1 .. Len(stored) : Hit(stored[i])
  THEN CHOOSE i \in 1 .. Len(stored) :
         Hit(stored[i]) /\ \A j \in (i + 1) .. Len(stored) : ~Hit(stored[j])
  ELSE 0

\* SelectTool.findAt: the id of the topmost entry hit, with the part and the
\* handle it reports to onSelect.
findAt(x, y, stored) ==
  LET hit(s) == partAt(x, y, s.shape) # "none"
      i == TopmostIndex(stored, hit)
  IN  IF i = 0 THEN [id |-> Null, part |-> "none", handle |-> "none"]
      ELSE [id |-> stored[i].id, part |-> partAt(x, y, stored[i].shape),
            handle |-> handleAt(x, y, stored[i].shape)]

\* Eraser.isPointInShape, rect (no padding)
isPointInShape(x, y, shape) ==
  /\ shape.type = "rect"
  /\ x >= shape.x
  /\ x <= shape.x + shape.width
  /\ y >= shape.y
  /\ y <= shape.y + shape.height

\* A findShapeAt that scans from the start of the order: id of the bottommost
\* entry hit, Null if none.
findShapeAtBottomUp(x, y, storedShapes) ==
  LET hit(s) == s.shape.type = "rect" /\ x >= s.shape.x /\ x <= s.shape.x + s.shape.width
                  /\ y >= s.shape.y /\ y <= s.shape.y + s.shape.height
      i == FindIndex(storedShapes, hit)
  IN  IF i = 0 THEN Null ELSE storedShapes[i].id

\* Eraser.findShapeAt: id of the topmost entry hit, Null if none.
findShapeAt(x, y, storedShapes) ==
  LET hit(s) == isPointInShape(x, y, s.shape)
      i == TopmostIndex(storedShapes, hit)
  IN  IF i = 0 THEN Null ELSE storedShapes[i].id

\* ResizeTool.hitTestHandles: the handle of `shape` under (x, y), "none"
\* when there is none (handleSize 12, half = 6).
hitTestHandles(x, y, shape) ==
  LET hs == handlesFor(bboxOf(shape))
      hit(k) == Abs(x - hs[k].x) <= 6 /\ Abs(y - hs[k].y) <= 6
      i == FindIndex(HandleNames, hit)
  IN  IF i = 0 THEN "none" ELSE HandleNames[i]

\* ResizeTool.computeNewBBoxFromHandle (minSize 6)
computeNewBBoxFromHandle(origBBox, handle, dx, dy) ==
  LET movesLeft == handle \in {"nw", "w", "sw"}
      movesRight == handle \in {"ne", "e", "se"}
      movesTop == handle \in {"nw", "n", "ne"}
      movesBottom == handle \in {"sw", "s", "se"}
      left0 == origBBox.x + (IF movesLeft THEN dx ELSE 0)
      right0 == origBBox.x + origBBox.w + (IF movesRight THEN dx ELSE 0)
      top0 == origBBox.y + (IF movesTop THEN dy ELSE 0)
      bottom0 == origBBox.y + origBBox.h + (IF movesBottom THEN dy ELSE 0)
      narrow == right0 - left0 < 6
      flat == bottom0 - top0 < 6
      left == IF narrow /\ movesLeft THEN right0 - 6 ELSE left0
      right == IF narrow /\ ~movesLeft THEN left0 + 6 ELSE right0
      top == IF flat /\ movesTop THEN bottom0 - 6 ELSE top0
      bottom == IF flat /\ ~movesTop THEN top0 + 6 ELSE bottom0
  IN  [x |-> left, y |-> top, w |-> right - left, h |-> bottom - top]

\* ResizeTool.applyResize, line and arrow: the left handles move the start
\* point, the right handles the end point, n and s the end point nearer the
\* top of the box.
moveEndpoint(handle, original, dx, dy) ==
  LET top == bboxOf(original).y
      start == \/ handle \in {"nw", "w", "sw"}
               \/ /\ handle \in {"n", "s"}
                  /\ Abs(original.startY - top) < Abs(original.endY - top)
  IN  IF start
      THEN [original EXCEPT !.startX = @ + dx, !.startY = @ + dy]
      ELSE [original EXCEPT !.endX = @ + dx, !.endY = @ + dy]

\* ResizeTool.applyResize, rect, circle, diamond, line and arrow: the pointer
\* has moved by (dx, dy) since startResize. NoShape is the null it returns for
\* a shape it does not know.
applyResize(handle, original, dx, dy) ==
  LET b == computeNewBBoxFromHandle(bboxOf(original), handle, dx, dy)
  IN  CASE original.type = "rect" ->
             [original EXCEPT !.x = b.x, !.y = b.y,
                              !.width = Max(6, b.w), !.height = Max(6, b.h)]
        [] original.type = "circle" ->
             [original EXCEPT !.centerX = b.x + (b.w \div 2),
                              !.centerY = b.y + (b.h \div 2),
                              !.radius = Max(3, Max(Max(b.w, b.h), 6) \div 2)]
        [] original.type = "diamond" ->
             [original EXCEPT !.width = Max(6, b.w), !.height = Max(6, b.h),
                              !.centerX = b.x + (b.w \div 2),
                              !.centerY = b.y + (b.h \div 2)]
        [] original.type \in {"line", "arrow"} -> moveEndpoint(handle, original, dx, dy)
        [] OTHER -> NoShape

\* Game.translateShape, rect, circle, diamond, line and arrow
translateShape(shape, dx, dy) ==
  CASE shape.type = "rect" -> [shape EXCEPT !.x = @ + dx, !.y = @ + dy]
    [] shape.type \in {"circle", "diamond"} ->
         [shape EXCEPT !.centerX = @ + dx, !.centerY = @ + dy]
    [] shape.type \in {"line", "arrow"} ->
         [shape EXCEPT !.startX = @ + dx, !.startY = @ + dy,
                       !.endX = @ + dx, !.endY = @ + dy]
    [] OTHER -> shape

\* ------------------------------------------------------------------ pencil
\* A stroke point is the pair <<x, y>>. A tolerance is given in halves of a
\* unit (3 is the 1.5 of updateSmoothed) and is never negative; distances are
\* compared as squares, which orders them as Math.hypot does.

\* pencil.ts pointDistance, squared
pointDistance2(a, b) == (a[1] - b[1]) * (a[1] - b[1]) + (a[2] - b[2]) * (a[2] - b[2])

\* simplifyRDP's lineDistance(p, a, b) times its denominator (1 when a = b),
\* squared: within one call a and b are fixed, so it orders the distances.
lineDistance2(p, a, b) ==
  LET num == (b[1] - a[1]) * (a[2] - p[2]) - (a[1] - p[1]) * (b[2] - a[2])
  IN  IF pointDistance2(a, b) = 0 THEN pointDistance2(p, a) ELSE num * num

\* simplifyRDP's loop: the position (1-based) of the first inner point at the
\* greatest distance from the line through the first and last point; 1 (the
\* initial index 0) when every inner point is at distance 0 (d > dmax never
\* holds).
farthest(pts) ==
  LET n == Len(pts)
      d(i) == lineDistance2(pts[i], pts[1], pts[n])
  IN  IF \A i \in 2 .. (n - 1) : d(i) = 0 THEN 1
      ELSE CHOOSE i \in 2 .. (n - 1) :
             /\ \A j \in 2 .. (n - 1) : d(j) <= d(i)
             /\ \A j \in 2 .. (i - 1) : d(j) < d(i)

\* simplifyRDP's test dmax > epsilon, epsilon = eps2 / 2.
exceeds(pts, eps2) ==
  LET n == Len(pts)
      den2 == pointDistance2(pts[1], pts[n])
      dmax2 == lineDistance2(pts[farthest(pts)], pts[1], pts[n])
  IN  4 * dmax2 > eps2 * eps2 * (IF den2 = 0 THEN 1 ELSE den2)

RECURSIVE simplifyRDPOpen(_, _)
\* A simplifyRDP that joins the halves by dropping the last point of the
\* second instead of the last point of the first.
simplifyRDPOpen(pts, eps2) ==
  IF Len(pts) < 3 THEN pts
  ELSE IF exceeds(pts, eps2)
  THEN LET rec1 == simplifyRDPOpen(SubSeq(pts, 1, farthest(pts)), eps2)
           rec2 == simplifyRDPOpen(SubSeq(pts, farthest(pts), Len(pts)), eps2)
       IN  rec1 \o SubSeq(rec2, 1, Len(rec2) - 1)
  ELSE <<pts[1], pts[Len(pts)]>>

RECURSIVE simplifyRDP(_, _)
\* pencil.ts simplifyRDP(points, epsilon), epsilon = eps2 / 2
simplifyRDP(pts, eps2) ==
  IF Len(pts) < 3 THEN pts
  ELSE IF exceeds(pts, eps2)
  THEN LET rec1 == simplifyRDP(SubSeq(pts, 1, farthest(pts)), eps2)
           rec2 == simplifyRDP(SubSeq(pts, farthest(pts), Len(pts)), eps2)
       IN  SubSeq(rec1, 1, Len(rec1) - 1) \o rec2
  ELSE <<pts[1], pts[Len(pts)]>>

\* Pencil.addPoint: the points after it (the point is accepted when it is the
\* first or farther than 0.5 from the last one).
addPoint(pts, p) ==
  IF pts = <<>> \/ 4 * pointDistance2(pts[Len(pts)], p) > 1 THEN Append(pts, p) ELSE pts

\* Pencil.updateSmoothed: the smoothed points for the points given
\* (simplifyRDP with epsilon 1.5).
updateSmoothed(pts) == IF Len(pts) < 2 THEN pts ELSE simplifyRDP(pts, 3)

\* ------------------------------------------------------------------ state
VARIABLES
  \* relay (ws-backend/src/index.ts)
  users,             \* const users: User[]: the registered connections, in order
  rooms,             \* User.rooms of each connection
  calls,             \* handlers suspended at an await prismaClient.chat.*
  callSeq,           \* number of handlers suspended so far (names the next one)
  \* persistence (Prisma model chat)
  db,                \* the chat rows, by ascending id
  nextId,            \* the autoincrement id of the next row
  \* sockets
  c2r,               \* frames from a client's Game to the relay, in order
  r2c,               \* frames from the relay to a client, in order
  \* client (draw/Game.ts)
  boot,              \* Game.init: "requested", "responded", "done"
  bootSnap,          \* the rows of the GET /chats/:roomId response in flight
  existingShapes,    \* Game.existingShapes
  selectedTool,      \* Game.selectedTool
  selectedShapeId,   \* Game.selectedShapeId
  isDraggingShape,   \* Game.isDraggingShape
  dragOriginalShape, \* Game.dragOriginalShape
  \* client (ResizeTool of each Game)
  activeHandle,      \* ResizeTool.activeHandle (Null: isResizing() is false)
  resizeSelectedId,  \* ResizeTool.selectedId
  resizeOriginal,    \* ResizeTool.originalShape
  startPointer,      \* ResizeTool.startPointer (<<>>: null, <<p>>: the point p)
  preview,           \* the shape mouseMoveHandler last drew as resize preview
  \* client (activePencil of each Game)
  points,            \* Pencil.points (<<>>: no activePencil)
  smoothed,          \* Pencil.smoothed
  \* relay connections (wss.on("connection"), heartbeat)
  sockets,           \* each client's socket at the relay: "none", "open", "closed"
  userIds,           \* User.userId of the connection of each client (Null: none)
  lastPing,          \* User.lastPing
  pinged,            \* a ping of the heartbeat is unanswered
  mute,              \* the client has stopped answering pings
  now,               \* Date.now() at the relay
  lastSweep,         \* when setInterval last ran heartbeat (or was started)
  connects,          \* number of sockets each client has opened so far
  presented,         \* the token in the URL of each client's latest socket
  \* history
  ops,               \* environment events so far
  failed,            \* a persistence call or the bootstrap read has failed
  missed,            \* the clients a broadcast has passed over (not in the room then)
  completed,         \* the update calls that succeeded, in the order their awaits returned
  frames,            \* frames delivered to a Game observed on its own
  lost,              \* [conn, tempId] of the chat messages whose append failed
  late,              \* the clients that let time pass with a ping unanswered
  erased,            \* [conn, id] of the entries a client's eraser has removed
  origin             \* [conn, tempId, dbId] of the chat messages whose append succeeded

relayVars == <<users, rooms, calls, callSeq>>
dbVars == <<db, nextId>>
netVars == <<c2r, r2c>>
gameVars == <<boot, bootSnap, existingShapes, selectedTool, selectedShapeId,
              isDraggingShape, dragOriginalShape>>
histVars == <<ops, failed, missed, completed>>
toolVars == <<activeHandle, resizeSelectedId, resizeOriginal, startPointer, preview,
              points, smoothed>>
connVars == <<sockets, userIds, lastPing, pinged, mute, now, lastSweep, connects, presented>>
envVars == <<frames, lost, late, erased, origin>>
vars == <<relayVars, dbVars, netVars, gameVars, histVars, toolVars, connVars, envVars>>

\* A wire message; the fields a type does not carry hold their empty value.
\* dbId is the numeric `id` of the relay's chat event (saved.id), id the string
\* `id` every other message carries.
Msg(type, id, dbId, tempId, shape, order) ==
  [type |-> type, roomId |-> Room, id |-> id, dbId |-> dbId, tempId |-> tempId,
   shape |-> shape, order |-> order]

\* StoredShape
Stored(id, shape, tempId) == [id |-> id, shape |-> shape, tempId |-> tempId]

\* Array.prototype.includes
Includes(s, x) == \E i \in 1 .. Len(s) : s[i] = x

\* The tokens a client may present: none, one that does not verify, one that
\* verifies to a payload without userId, one that verifies to a user id.
Tokens == {"", "forged", "signed-anonymous", "signed-u1", "signed-u2"}

\* A checkUser that reads the payload without verifying the signature.
checkUserUnverified(token) ==
  CASE token = "" -> Null
    [] token = "signed-u1" -> "u1"
    [] token = "signed-u2" -> "u2"
    [] token = "forged" -> "u1"
    [] OTHER -> Null

\* checkUser(token): the user id the token verifies to, Null otherwise.
checkUser(token) ==
  CASE token = "" -> Null
    [] token = "signed-u1" -> "u1"
    [] token = "signed-u2" -> "u2"
    [] OTHER -> Null

\* The token the page of a signed-in client puts in the socket's URL.
TokenOf(c) == IF c = "c1" THEN "signed-u1" ELSE "signed-u2"

\* Rows the room may hold when the clients open it.
InitialHistories == {<<[id |-> 1, roomId |-> 1, shape |-> Rect(0)]>>}

\* Both clients have connected with a valid token (the relay has registered
\* them with no room) and have constructed their Game, whose init() has
\* issued the bootstrap read; Canvas has set the pencil tool.
Init ==
  /\ users = <<"c1", "c2">>
  /\ rooms = [c \in Clients |-> <<>>]
  /\ calls = {}
  /\ callSeq = 0
  /\ db \in InitialHistories
  /\ nextId = Len(db) + 1
  /\ c2r = [c \in Clients |-> <<>>]
  /\ r2c = [c \in Clients |-> <<>>]
  /\ boot = [c \in Clients |-> "requested"]
  /\ bootSnap = [c \in Clients |-> <<>>]
  /\ existingShapes = [c \in Clients |-> <<>>]
  /\ selectedTool = [c \in Clients |-> "pencil"]
  /\ selectedShapeId = [c \in Clients |-> Null]
  /\ isDraggingShape = [c \in Clients |-> FALSE]
  /\ dragOriginalShape = [c \in Clients |-> NoShape]
  /\ ops = 0
  /\ failed = FALSE
  /\ missed = {}
  /\ completed = <<>>
  /\ activeHandle = [c \in Clients |-> Null]
  /\ resizeSelectedId = [c \in Clients |-> Null]
  /\ resizeOriginal = [c \in Clients |-> NoShape]
  /\ startPointer = [c \in Clients |-> <<>>]
  /\ preview = [c \in Clients |-> NoShape]
  /\ points = [c \in Clients |-> <<>>]
  /\ smoothed = [c \in Clients |-> <<>>]
  /\ sockets = [c \in Clients |-> "open"]
  /\ userIds = [c \in Clients |-> checkUser(TokenOf(c))]
  /\ lastPing = [c \in Clients |-> TimeStep]
  /\ pinged = [c \in Clients |-> FALSE]
  /\ mute = [c \in Clients |-> FALSE]
  /\ now = TimeStep
  /\ lastSweep = TimeStep
  /\ connects = [c \in Clients |-> 1]
  /\ presented = [c \in Clients |-> TokenOf(c)]
  /\ frames = 0
  /\ lost = {}
  /\ late = {}
  /\ erased = {}
  /\ origin = {}

\* ------------------------------------------------------------------ Shape Store
\* A chat handler that never looks for the pending entry: it inserts.
onChatInsertOnly(store, m) ==
  LET serverId == NatToStr(m.dbId)
      already == \E i \in 1 .. Len(store) : store[i].id = serverId
  IN  IF ~already THEN Append(store, Stored(serverId, m.shape, Undefined)) ELSE store

\* socket.onmessage, type chat: reconcile the pending entry or insert.
onChat(store, m) ==
  LET serverId == NatToStr(m.dbId)
      matches(e) == e.tempId = m.tempId \/ e.id = m.tempId
      idx == IF m.tempId # Undefined THEN FindIndex(store, matches) ELSE 0
      already == \E i \in 1 .. Len(store) : store[i].id = serverId
  IN  IF idx # 0 THEN [store EXCEPT ![idx] = Stored(serverId, m.shape, Undefined)]
      ELSE IF ~already THEN Append(store, Stored(serverId, m.shape, Undefined))
      ELSE store

\* A delete handler that cuts the store at the first entry with the id.
onDeleteTruncating(store, m) ==
  LET has(e) == e.id = m.id
      idx == FindIndex(store, has)
  IN  IF idx = 0 THEN store ELSE SubSeq(store, 1, idx - 1)

\* socket.onmessage, type delete: drop every entry with the id.
onDelete(store, m) ==
  LET keep(e) == e.id # m.id IN SelectSeq(store, keep)

RECURSIVE orderedPart(_, _)
\* The first loop of the reorder handler: one entry per element of `order`
\* that idTo knows; idTo maps an id to the shape of its last entry.
orderedPart(store, order) ==
  IF order = <<>> THEN <<>>
  ELSE LET id == Head(order)
           known == {i \in 1 .. Len(store) : store[i].id = id}
           lastI == CHOOSE i \in known : \A j \in known : j <= i
       IN  IF known = {} THEN orderedPart(store, Tail(order))
           ELSE <<Stored(id, store[lastI].shape, Undefined)>>
                  \o orderedPart(store, Tail(order))

RECURSIVE appendUnmentioned(_, _)
\* The second loop of the reorder handler: each entry of the store is pushed
\* unless newList, as it stands at that moment, already has an entry of its id.
appendUnmentioned(newList, rest) ==
  IF rest = <<>> THEN newList
  ELSE LET s == Head(rest)
           found == \E i \in 1 .. Len(newList) : newList[i].id = s.id
       IN  appendUnmentioned(IF found THEN newList ELSE Append(newList, s), Tail(rest))

\* socket.onmessage, type reorder
onReorder(store, m) == appendUnmentioned(orderedPart(store, m.order), store)

\* An update handler that ignores an id the store does not hold.
onUpdateKnown(store, m) ==
  LET has(e) == e.id = m.id
      idx == FindIndex(store, has)
  IN  IF idx # 0 THEN [store EXCEPT ![idx].shape = m.shape] ELSE store

\* socket.onmessage, type update: replace the shape or insert.
onUpdate(store, m) ==
  LET has(e) == e.id = m.id
      idx == FindIndex(store, has)
  IN  IF idx # 0 THEN [store EXCEPT ![idx].shape = m.shape]
      ELSE Append(store, Stored(m.id, m.shape, Undefined))

\* The store after the handler of socket.onmessage has run on m.
applyMessage(store, m) ==
  CASE m.type = "chat" -> onChat(store, m)
    [] m.type = "delete" -> onDelete(store, m)
    [] m.type = "reorder" -> onReorder(store, m)
    [] m.type = "update" -> onUpdate(store, m)
    [] OTHER -> store

\* Game.init, the rows of the response normalised: id: String(s.id).
bootShapes(rows) == [i \in 1 .. Len(rows) |-> Stored(NatToStr(rows[i].id), rows[i].shape, Undefined)]

\* ------------------------------------------------------------------ client
\* ResizeTool.finishResize() on the Game of c; its callers redraw the canvas
\* from the store (clearCanvas), which ends the preview.
finishResize(c) ==
  /\ activeHandle' = [activeHandle EXCEPT ![c] = Null]
  /\ resizeSelectedId' = [resizeSelectedId EXCEPT ![c] = Null]
  /\ resizeOriginal' = [resizeOriginal EXCEPT ![c] = NoShape]
  /\ startPointer' = [startPointer EXCEPT ![c] = <<>>]
  /\ preview' = [preview EXCEPT ![c] = NoShape]
  /\ UNCHANGED <<points, smoothed>>

\* A delete handler that leaves the resize tool alone.
cancelsNothing(c, m) == FALSE

\* socket.onmessage, type delete: the deleted id is the selected one, so the
\* handler clears the selection and calls resizeTool.finishResize().
cancelsResize(c, m) == m.type = "delete" /\ selectedShapeId[c] = m.id

\* socket.send on the client's socket
Send(c, m) == c2r' = [c2r EXCEPT ![c] = Append(@, m)]

\* GET /chats/:roomId: findMany where roomId, orderBy id asc.
roomRows(roomId) ==
  LET inRoom(r) == r.roomId = Number(roomId) IN SelectSeq(db, inRoom)

\* The HTTP backend reads the room's rows for c's request.
BootRead(c) ==
  /\ boot[c] = "requested"
  /\ boot' = [boot EXCEPT ![c] = "responded"]
  /\ bootSnap' = [bootSnap EXCEPT ![c] = roomRows(Room)]
  /\ UNCHANGED <<relayVars, dbVars, netVars, existingShapes, selectedTool,
                 selectedShapeId, isDraggingShape, dragOriginalShape, histVars,
                 toolVars, connVars, envVars>>

\* Game.init after the await: the response replaces the store (ok); a failed
\* request empties it.
BootDone(c, ok) ==
  /\ boot[c] = "responded"
  /\ ~ok => ops < MaxOps
  /\ ops' = IF ok THEN ops ELSE ops + 1
  /\ failed' = (failed \/ ~ok)
  /\ existingShapes' =
       [existingShapes EXCEPT ![c] = IF ok THEN bootShapes(bootSnap[c]) ELSE <<>>]
  /\ boot' = [boot EXCEPT ![c] = "done"]
  /\ bootSnap' = [bootSnap EXCEPT ![c] = <<>>]
  /\ UNCHANGED <<relayVars, dbVars, netVars, selectedTool, selectedShapeId,
                 isDraggingShape, dragOriginalShape, missed, completed,
                 toolVars, connVars, envVars>>

\* Game.setTool(tool): the selection after it.
setToolSelection(c, tool) == IF tool # "select" THEN Null ELSE selectedShapeId[c]

\* mouseUpHandler's first branch is taken.
DragPending(c) ==
  isDraggingShape[c] /\ selectedShapeId[c] # Null /\ dragOriginalShape[c] # NoShape

\* The entry a creation gesture ending at time t pushes.
pendingEntry(shape, t) == Stored(PendingId(t), shape, PendingId(t))

\* setTool("rect"), then mouseDownHandler + mouseUpHandler: a creation
\* gesture starting at (x, 0) ends at time t.
CreateShape(c, x, t) ==
  /\ ops < MaxOps
  /\ selectedTool' = [selectedTool EXCEPT ![c] = "rect"]
  /\ selectedShapeId' = [selectedShapeId EXCEPT ![c] = setToolSelection(c, "rect")]
  /\ existingShapes' = [existingShapes EXCEPT ![c] = Append(@, pendingEntry(Rect(x), t))]
  /\ Send(c, Msg("chat", "", 0, PendingId(t), Rect(x), <<>>))
  /\ ops' = ops + 1
  /\ finishResize(c)
  /\ UNCHANGED <<relayVars, dbVars, r2c, boot, bootSnap, isDraggingShape,
                 dragOriginalShape, failed, missed, completed, connVars, envVars>>

\* An eraser click that removes the topmost entry and never looks at the hit test.
eraseAtAlways(store, x, y) ==
  LET shapeId == IF store = <<>> THEN Null ELSE store[Len(store)].id
      keep(e) == e.id # shapeId
  IN  IF shapeId = Null THEN [store |-> store, sent |-> <<>>]
      ELSE [store |-> SelectSeq(store, keep),
            sent |-> <<Msg("delete", shapeId, 0, Undefined, NoShape, <<>>)>>]

\* mouseDownHandler, tool eraser, at world point (x, y): the store after it and
\* the messages it sends (none when findShapeAt finds no shape).
eraseAt(store, x, y) ==
  LET shapeId == findShapeAt(x, y, store)
      keep(e) == e.id # shapeId
  IN  IF shapeId = Null THEN [store |-> store, sent |-> <<>>]
      ELSE [store |-> SelectSeq(store, keep),
            sent |-> <<Msg("delete", shapeId, 0, Undefined, NoShape, <<>>)>>]

\* setTool("eraser"), then mouseDownHandler at point p (mouseUpHandler then
\* finds nothing to finalize).
EraseAt(c, p) ==
  /\ ops < MaxOps
  /\ selectedTool' = [selectedTool EXCEPT ![c] = "eraser"]
  /\ selectedShapeId' = [selectedShapeId EXCEPT ![c] = setToolSelection(c, "eraser")]
  /\ LET r == eraseAt(existingShapes[c], p.x, p.y)
     IN  /\ existingShapes' = [existingShapes EXCEPT ![c] = r.store]
         /\ IF r.sent = <<>>
            THEN UNCHANGED <<c2r, erased>>
            ELSE /\ Send(c, r.sent[1])
                 /\ erased' = erased \cup {[conn |-> c, id |-> r.sent[1].id]}
  /\ ops' = ops + 1
  /\ finishResize(c)
  /\ UNCHANGED <<relayVars, dbVars, r2c, boot, bootSnap, isDraggingShape,
                 dragOriginalShape, failed, missed, completed, connVars,
                 frames, lost, late, origin>>

\* setTool("select"), then mouseDownHandler on a point that hits a shape.
\* findAt reports the hit to the onSelect callback (a handle hit switches to
\* the resize tool); then the handler stores the id found and snapshots the
\* shape for the drag.
SelectAt(c, p) ==
  /\ ops < MaxOps
  /\ LET found == findAt(p.x, p.y, existingShapes[c])
         has(e) == e.id = found.id
         idx == FindIndex(existingShapes[c], has)
     IN  /\ found.id # Null
         /\ selectedShapeId' = [selectedShapeId EXCEPT ![c] = found.id]
         /\ selectedTool' =
              [selectedTool EXCEPT ![c] = IF found.part = "handle" THEN "resize" ELSE "select"]
         /\ isDraggingShape' = [isDraggingShape EXCEPT ![c] = TRUE]
         /\ dragOriginalShape' =
              [dragOriginalShape EXCEPT ![c] = existingShapes[c][idx].shape]
         /\ activeHandle' = [activeHandle EXCEPT ![c] = Null]
         /\ resizeOriginal' = [resizeOriginal EXCEPT ![c] = NoShape]
         /\ resizeSelectedId' = [resizeSelectedId EXCEPT ![c] = found.id]
         /\ startPointer' = [startPointer EXCEPT ![c] = <<>>]
  /\ UNCHANGED <<relayVars, dbVars, netVars, boot, bootSnap, existingShapes, histVars,
                 preview, points, smoothed, connVars, envVars>>

\* mouseUpHandler, commit drag of selected shape: the pointer has moved by dx.
DragCommit(c, dx) ==
  /\ DragPending(c)
  /\ ops < MaxOps
  /\ LET newShape == translateShape(dragOriginalShape[c], dx, 0)
         has(e) == e.id = selectedShapeId[c]
         idx == FindIndex(existingShapes[c], has)
     IN  /\ existingShapes' =
              [existingShapes EXCEPT ![c] = IF idx # 0 THEN [@ EXCEPT ![idx].shape = newShape] ELSE @]
         /\ Send(c, Msg("update", selectedShapeId[c], 0, Undefined, newShape, <<>>))
  /\ isDraggingShape' = [isDraggingShape EXCEPT ![c] = FALSE]
  /\ dragOriginalShape' = [dragOriginalShape EXCEPT ![c] = NoShape]
  /\ ops' = ops + 1
  /\ UNCHANGED <<relayVars, dbVars, r2c, boot, bootSnap, selectedTool,
                 selectedShapeId, failed, missed, completed, toolVars, connVars, envVars>>

\* A bringToFront that sends the order read before the move.
bringToFrontStale(store, id) ==
  LET has(e) == e.id = id
      idx == FindIndex(store, has)
      moved == Append(RemoveAt(store, idx), store[idx])
  IN  IF idx = 0 THEN [store |-> store, sent |-> <<>>]
      ELSE [store |-> moved,
            sent |-> <<Msg("reorder", "", 0, Undefined, NoShape, Ids(store))>>]

\* Game.bringToFront(id) then Game.sendReorder(): the store after the call and
\* the messages it sends (none when no entry has the id: the call returns).
bringToFront(store, id) ==
  LET has(e) == e.id = id
      idx == FindIndex(store, has)
      moved == Append(RemoveAt(store, idx), store[idx])
  IN  IF idx = 0 THEN [store |-> store, sent |-> <<>>]
      ELSE [store |-> moved,
            sent |-> <<Msg("reorder", "", 0, Undefined, NoShape, Ids(moved))>>]

\* Game.bringToFront(id), for an id of the store.
BringToFront(c, id) ==
  /\ ops < MaxOps
  /\ LET r == bringToFront(existingShapes[c], id)
     IN  /\ r.sent # <<>>
         /\ existingShapes' = [existingShapes EXCEPT ![c] = r.store]
         /\ Send(c, r.sent[1])
  /\ ops' = ops + 1
  /\ UNCHANGED <<relayVars, dbVars, r2c, boot, bootSnap, selectedTool,
                 selectedShapeId, isDraggingShape, dragOriginalShape, failed, missed,
                 completed, toolVars, connVars, envVars>>

\* Pointer positions of a Game observed on its own: inside the first shape
\* and on its east handle.
GamePointers == {[x |-> 20, y |-> 20], [x |-> 40, y |-> 20]}

\* An eraser click far from every shape of a Game observed on its own.
FarPointer == [x |-> 200, y |-> 200]

\* mouseDownHandler with the resize tool: start a resize when the selected
\* shape's handle is under the pointer, select again otherwise (findAt
\* reports to onSelect, which switches to the select tool on an inside hit).
ResizeDown(c, p) ==
  /\ selectedTool[c] = "resize"
  /\ LET sel == selectedShapeId[c]
         has(e) == e.id = sel
         idx == FindIndex(existingShapes[c], has)
         handle == IF idx = 0 THEN "none"
                   ELSE hitTestHandles(p.x, p.y, existingShapes[c][idx].shape)
         found == findAt(p.x, p.y, existingShapes[c])
     IN  IF sel # Null /\ idx = 0
         THEN UNCHANGED <<selectedShapeId, selectedTool, activeHandle, resizeSelectedId,
                          resizeOriginal, startPointer, preview>>
         ELSE IF sel # Null /\ handle # "none"
         THEN /\ activeHandle' = [activeHandle EXCEPT ![c] = handle]
              /\ preview' = [preview EXCEPT ![c] = NoShape]
              /\ startPointer' = [startPointer EXCEPT ![c] = <<p>>]
              /\ resizeOriginal' = [resizeOriginal EXCEPT ![c] = existingShapes[c][idx].shape]
              /\ resizeSelectedId' = [resizeSelectedId EXCEPT ![c] = sel]
              /\ UNCHANGED <<selectedShapeId, selectedTool>>
         ELSE /\ selectedShapeId' = [selectedShapeId EXCEPT ![c] = found.id]
              /\ resizeSelectedId' = [resizeSelectedId EXCEPT ![c] = found.id]
              /\ selectedTool' =
                   [selectedTool EXCEPT ![c] = IF found.part = "inside" THEN "select" ELSE @]
              /\ activeHandle' =
                   [activeHandle EXCEPT ![c] = IF found.part = "inside" THEN Null ELSE @]
              /\ resizeOriginal' =
                   [resizeOriginal EXCEPT ![c] = IF found.part = "inside" THEN NoShape ELSE @]
              /\ startPointer' =
                   [startPointer EXCEPT ![c] = IF found.part = "inside" THEN <<>> ELSE @]
              /\ preview' = [preview EXCEPT ![c] = NoShape]
  /\ UNCHANGED <<relayVars, dbVars, netVars, boot, bootSnap, existingShapes,
                 isDraggingShape, dragOriginalShape, histVars, points, smoothed,
                 connVars, envVars>>

\* A resize preview that keeps its result as the tool's snapshot.
ResizePreviewAccumulating(c, dx, dy) ==
  /\ selectedTool[c] = "resize"
  /\ activeHandle[c] # Null
  /\ LET shape == applyResize(activeHandle[c], resizeOriginal[c], dx, dy)
     IN  /\ preview' = [preview EXCEPT ![c] = shape]
         /\ resizeOriginal' = [resizeOriginal EXCEPT ![c] = shape]
  /\ UNCHANGED <<relayVars, dbVars, netVars, gameVars, histVars, activeHandle,
                 resizeSelectedId, startPointer, points, smoothed, connVars, envVars>>

\* mouseMoveHandler, resize preview: the pointer is at startPointer + (dx, dy);
\* the shape applyResize returns is drawn in place of the selected one.
ResizePreview(c, dx, dy) ==
  /\ selectedTool[c] = "resize"
  /\ activeHandle[c] # Null
  /\ preview' = [preview EXCEPT ![c] = applyResize(activeHandle[c], resizeOriginal[c], dx, dy)]
  /\ UNCHANGED <<relayVars, dbVars, netVars, gameVars, histVars, activeHandle,
                 resizeSelectedId, resizeOriginal, startPointer, points, smoothed,
                 connVars, envVars>>

\* mouseUpHandler, finalize resize: the pointer is at startPointer + (dx, dy).
ResizeCommit(c, dx, dy) ==
  /\ ~DragPending(c)
  /\ selectedTool[c] = "resize"
  /\ activeHandle[c] # Null
  /\ ops < MaxOps
  /\ LET newShape == applyResize(activeHandle[c], resizeOriginal[c], dx, dy)
         id == resizeSelectedId[c]
         has(e) == e.id = id
         idx == FindIndex(existingShapes[c], has)
     IN  IF id # Null /\ newShape # NoShape
         THEN /\ existingShapes' =
                   [existingShapes EXCEPT ![c] = IF idx # 0 THEN [@ EXCEPT ![idx].shape = newShape] ELSE @]
              /\ Send(c, Msg("update", id, 0, Undefined, newShape, <<>>))
         ELSE UNCHANGED <<existingShapes, c2r>>
  /\ finishResize(c)
  /\ ops' = ops + 1
  /\ UNCHANGED <<relayVars, dbVars, r2c, boot, bootSnap, selectedTool, selectedShapeId,
                 isDraggingShape, dragOriginalShape, failed, missed, completed,
                 connVars, envVars>>

\* Frames a server may deliver to a Game: the events of a peer's creation,
\* with and without tempId, and a peer's update, delete and reorder (one
\* order names an id twice).
PeerFrames ==
  {Msg("chat", "", 2, T, Rect(0), <<>>) : T \in {PendingId(1), Undefined}}
    \cup {Msg("update", id, 0, Undefined, Rect(50), <<>>) : id \in {"1", "2"}}
    \cup {Msg("delete", id, 0, Undefined, NoShape, <<>>) : id \in {"1", "2"}}
    \cup {Msg("reorder", "", 0, Undefined, NoShape, order) : order \in {<<"1">>, <<"2", "1">>, <<"1", "1">>}}

\* The socket of c's Game receives a frame.
PeerFrame(c, m) ==
  /\ frames < MaxFrames
  /\ frames' = frames + 1
  /\ r2c' = [r2c EXCEPT ![c] = Append(@, m)]
  /\ UNCHANGED <<relayVars, dbVars, c2r, gameVars, histVars, toolVars, connVars, lost, late,
                 erased, origin>>

\* socket.onmessage on the next frame from the relay.
ClientOnMessage(c) ==
  /\ r2c[c] # <<>>
  /\ LET m == Head(r2c[c])
     IN  /\ existingShapes' = [existingShapes EXCEPT ![c] = applyMessage(@, m)]
         /\ selectedShapeId' =
              [selectedShapeId EXCEPT ![c] = IF m.type = "delete" /\ @ = m.id THEN Null ELSE @]
         /\ IF cancelsResize(c, m) THEN finishResize(c) ELSE UNCHANGED toolVars
  /\ r2c' = [r2c EXCEPT ![c] = Tail(@)]
  /\ UNCHANGED <<relayVars, dbVars, c2r, boot, bootSnap, selectedTool,
                 isDraggingShape, dragOriginalShape, histVars, connVars, envVars>>

\* ------------------------------------------------------------------ relay
Registered(c) == Includes(users, c)

\* A broadcast that ignores membership: every registered connection is sent
\* the payload.
broadcastToAll(roomId, payload) ==
  [u \in Clients |-> IF Registered(u) THEN Append(r2c[u], payload) ELSE r2c[u]]

\* A broadcast that sends the payload once for every entry of User.rooms that
\* is the room.
broadcastPerEntry(roomId, payload) ==
  [u \in Clients |->
     IF Registered(u)
     THEN r2c[u] \o [i \in 1 .. Cardinality({j \in 1 .. Len(rooms[u]) : rooms[u][j] = roomId})
                       |-> payload]
     ELSE r2c[u]]

\* broadcastToRoom(roomId, payload): the value of r2c after it.
broadcastToRoom(roomId, payload) ==
  [u \in Clients |->
     IF Registered(u) /\ Includes(rooms[u], roomId) THEN Append(r2c[u], payload)
     ELSE r2c[u]]

\* ws.on("message"), case join_room, on the join_room frame the page of c
\* sends once on its socket.
RelayJoin(c) ==
  /\ Registered(c)
  /\ rooms[c] = <<>>
  /\ rooms' = [rooms EXCEPT ![c] = Append(@, Room)]
  /\ UNCHANGED <<users, calls, callSeq, dbVars, netVars, gameVars, histVars,
                 toolVars, connVars, envVars>>

\* A handler suspended at its await.
Call(kind, c, m) ==
  [n |-> callSeq + 1, kind |-> kind, conn |-> c, roomId |-> m.roomId, id |-> m.id,
   tempId |-> m.tempId, shape |-> m.shape, state |-> "issued", dbId |-> 0]

\* A delete handler without the durable-id check.
skipsNoDelete(shapeId) == FALSE

\* case "delete": Number.isNaN(Number(shapeId)), the handler breaks.
skipsDelete(shapeId) == Number(shapeId) = NaN

\* A frame is represented by what JSON.parse gives for it.  Two frames are no
\* object: the text JSON.parse rejects and the text `null`, which parses to
\* null; they are represented by a message whose type is one of these marks.
Garbled == "{"
JsonNull == "json null"

\* Malformed frames: not JSON, JSON without a type (null, or an object that
\* has none), JSON of an unknown type.
Malformed ==
  {Msg(ty, "1", 0, Undefined, Rect(0), <<>>) : ty \in {Garbled, JsonNull, "", "bogus"}}

\* `const { type } = parsedData` throws a TypeError: parsedData is null.
throws(m) == m.type = JsonNull

\* The persistence call the handler of m awaits, "none" when it awaits none:
\* the handler returns when the frame does not parse or has no type, and its
\* default case (and join_room, leave_room) awaits nothing.
awaited(m) ==
  CASE m.type = "chat" -> "create"
    [] m.type = "update" -> "update"
    [] m.type = "delete" /\ ~skipsDelete(m.id) -> "delete"
    [] OTHER -> "none"

\* ws.on("message") on the next frame of a socket, up to the first await (or
\* to the end of the handler when it awaits nothing).  The handler is an async
\* function nobody awaits: when it throws, its promise is rejected with no
\* handler, and the runtime either only warns or ends the process (`down`),
\* which closes every socket and abandons every suspended handler.
RelayOnMessage(c) ==
  /\ Registered(c)
  /\ c2r[c] # <<>>
  /\ LET m == Head(c2r[c])
     IN  IF throws(m)
         THEN \E down \in BOOLEAN :
                /\ users' = IF down THEN <<>> ELSE users
                /\ sockets' = IF down
                              THEN [u \in Clients |-> IF sockets[u] = "open" THEN "closed"
                                                      ELSE sockets[u]]
                              ELSE sockets
                /\ calls' = IF down THEN {} ELSE calls
                /\ UNCHANGED callSeq
         ELSE /\ IF awaited(m) = "none"
                 THEN UNCHANGED <<calls, callSeq>>
                 ELSE /\ calls' = calls \cup {Call(awaited(m), c, m)}
                      /\ callSeq' = callSeq + 1
              /\ UNCHANGED <<users, sockets>>
  /\ c2r' = [c2r EXCEPT ![c] = Tail(@)]
  /\ UNCHANGED <<rooms, dbVars, r2c, gameVars, histVars, toolVars, userIds, lastPing,
                 pinged, mute, now, lastSweep, connects, presented, envVars>>

\* The row with a given id, 0 when there is none.
rowIndex(id) ==
  LET is(r) == r.id = id IN FindIndex(db, is)

\* Whether Prisma call k succeeds on the current rows when the database is up:
\* chat.update and chat.delete need a numeric id and its row.
dbAccepts(k) ==
  k.kind = "create" \/ (Number(k.id) # NaN /\ rowIndex(Number(k.id)) # 0)

\* The rows after call k has succeeded.
dbApply(k) ==
  CASE k.kind = "create" ->
         Append(db, [id |-> nextId, roomId |-> Number(k.roomId), shape |-> k.shape])
    [] k.kind = "update" -> [db EXCEPT ![rowIndex(Number(k.id))].shape = k.shape]
    [] k.kind = "delete" -> RemoveAt(db, rowIndex(Number(k.id)))

\* Prisma runs the suspended call k on the database (up: the database
\* answers; otherwise the call fails for the database's own reasons).
DbExec(k, up) ==
  /\ k \in calls
  /\ k.state = "issued"
  /\ ~up => ops < MaxOps
  /\ ops' = IF up THEN ops ELSE ops + 1
  /\ LET ok == up /\ dbAccepts(k)
         done == [k EXCEPT !.state = IF ok THEN "ok" ELSE "err",
                           !.dbId = IF ok /\ k.kind = "create" THEN nextId ELSE 0]
     IN  /\ calls' = (calls \ {k}) \cup {done}
         /\ failed' = (failed \/ ~ok)
         /\ db' = IF ok THEN dbApply(k) ELSE db
         /\ nextId' = IF ok /\ k.kind = "create" THEN nextId + 1 ELSE nextId
  /\ UNCHANGED <<users, rooms, callSeq, netVars, gameVars, missed, completed,
                 toolVars, connVars, envVars>>

\* An update handler that broadcasts after its try/catch, whatever the
\* persistence update gave.
resumePayloadAlways(k) ==
  CASE k.kind = "create" /\ k.state = "ok" ->
         <<Msg("chat", "", k.dbId, k.tempId, k.shape, <<>>)>>
    [] k.kind = "update" ->
         <<Msg("update", k.id, 0, Undefined, k.shape, <<>>)>>
    [] k.kind = "delete" ->
         <<Msg("delete", k.id, 0, Undefined, NoShape, <<>>)>>
    [] OTHER -> <<>>

\* What the handler of k broadcasts once its await has returned or thrown:
\* a sequence of zero or one payloads.
resumePayload(k) ==
  CASE k.kind = "create" /\ k.state = "ok" ->
         <<Msg("chat", "", k.dbId, k.tempId, k.shape, <<>>)>>
    [] k.kind = "update" /\ k.state = "ok" ->
         <<Msg("update", k.id, 0, Undefined, k.shape, <<>>)>>
    [] k.kind = "delete" ->
         <<Msg("delete", k.id, 0, Undefined, NoShape, <<>>)>>
    [] OTHER -> <<>>

\* ws.on("message") after the await: the rest of the handler of k.
RelayResume(k) ==
  /\ k \in calls
  /\ k.state \in {"ok", "err"}
  /\ r2c' = IF resumePayload(k) = <<>> THEN r2c
            ELSE broadcastToRoom(k.roomId, resumePayload(k)[1])
  /\ calls' = calls \ {k}
  /\ missed' = IF resumePayload(k) = <<>> THEN missed
               ELSE missed \cup {u \in Clients : ~Includes(rooms[u], k.roomId)}
  /\ completed' = IF k.kind = "update" /\ k.state = "ok"
                  THEN Append(completed, [id |-> k.id, shape |-> k.shape, conn |-> k.conn])
                  ELSE completed
  /\ lost' = IF k.kind = "create" /\ k.state = "err"
             THEN lost \cup {[conn |-> k.conn, tempId |-> k.tempId]}
             ELSE lost
  /\ origin' = IF k.kind = "create" /\ k.state = "ok"
               THEN origin \cup {[conn |-> k.conn, tempId |-> k.tempId, dbId |-> k.dbId]}
               ELSE origin
  /\ UNCHANGED <<users, rooms, callSeq, dbVars, c2r, gameVars, ops, failed,
                 toolVars, connVars, frames, late, erased>>

\* ------------------------------------------------------------------ specification
Next ==
  \/ \E c \in Clients : BootRead(c)
  \/ \E c \in Clients, ok \in BOOLEAN : BootDone(c, ok)
  \/ \E c \in Clients, x \in Xs, t \in Stamps : CreateShape(c, x, t)
  \/ \E c \in Clients, p \in Pointers : EraseAt(c, p)
  \/ \E c \in Clients, p \in Pointers : SelectAt(c, p)
  \/ \E c \in Clients, dx \in Deltas : DragCommit(c, dx)
  \/ \E c \in Clients : \E i \in 1 .. Len(existingShapes[c]) :
       BringToFront(c, existingShapes[c][i].id)
  \/ \E c \in Clients : ClientOnMessage(c)
  \/ \E c \in Clients : RelayJoin(c)
  \/ \E c \in Clients : RelayOnMessage(c)
  \/ \E k \in calls, up \in BOOLEAN : DbExec(k, up)
  \/ \E k \in calls : RelayResume(k)

Spec == Init /\ [][Next]_vars

\* ------------------------------------------------------------------ one Game
\* The Game of c1 on its own: its init() has returned the room's rows and its
\* socket delivers whatever frames a server sends.
InitGame ==
  /\ users = <<"c1", "c2">>
  /\ rooms = [c \in Clients |-> <<Room>>]
  /\ calls = {}
  /\ callSeq = 0
  /\ db \in InitialHistories
  /\ nextId = Len(db) + 1
  /\ c2r = [c \in Clients |-> <<>>]
  /\ r2c = [c \in Clients |-> <<>>]
  /\ boot = [c \in Clients |-> "done"]
  /\ bootSnap = [c \in Clients |-> <<>>]
  /\ existingShapes = [c \in Clients |-> bootShapes(roomRows(Room))]
  /\ selectedTool = [c \in Clients |-> "pencil"]
  /\ selectedShapeId = [c \in Clients |-> Null]
  /\ isDraggingShape = [c \in Clients |-> FALSE]
  /\ dragOriginalShape = [c \in Clients |-> NoShape]
  /\ ops = 0
  /\ failed = FALSE
  /\ missed = {}
  /\ completed = <<>>
  /\ activeHandle = [c \in Clients |-> Null]
  /\ resizeSelectedId = [c \in Clients |-> Null]
  /\ resizeOriginal = [c \in Clients |-> NoShape]
  /\ startPointer = [c \in Clients |-> <<>>]
  /\ preview = [c \in Clients |-> NoShape]
  /\ points = [c \in Clients |-> <<>>]
  /\ smoothed = [c \in Clients |-> <<>>]
  /\ sockets = [c \in Clients |-> "open"]
  /\ userIds = [c \in Clients |-> checkUser(TokenOf(c))]
  /\ lastPing = [c \in Clients |-> TimeStep]
  /\ pinged = [c \in Clients |-> FALSE]
  /\ mute = [c \in Clients |-> FALSE]
  /\ now = TimeStep
  /\ lastSweep = TimeStep
  /\ connects = [c \in Clients |-> 1]
  /\ presented = [c \in Clients |-> TokenOf(c)]
  /\ frames = 0
  /\ lost = {}
  /\ late = {}
  /\ erased = {}
  /\ origin = {}

NextGame ==
  \/ \E x \in Xs, t \in Stamps : CreateShape("c1", x, t)
  \/ \E p \in GamePointers \cup {FarPointer} : EraseAt("c1", p)
  \/ \E p \in GamePointers : SelectAt("c1", p)
  \/ \E dx \in Deltas : DragCommit("c1", dx)
  \/ \E i \in 1 .. Len(existingShapes["c1"]) : BringToFront("c1", existingShapes["c1"][i].id)
  \/ \E p \in GamePointers : ResizeDown("c1", p)
  \/ \E dx \in Deltas : ResizeCommit("c1", dx, 0)
  \/ \E m \in PeerFrames : PeerFrame("c1", m)
  \/ ClientOnMessage("c1")

SpecGame == InitGame /\ [][NextGame]_vars

\* ------------------------------------------------------------------ one resize
\* Shapes a drag gesture has created in the room: a square, a flat rect, a
\* rect narrower than the minimum size of a resize, a
\* circle (drag by (24, 32)), a diamond, a horizontal line, a sloping arrow.
ResizeShapes ==
  {Rect(0), RectOf(0, 0, 40, 8), RectOf(0, 0, 4, 40), Circle(12, 16, 20),
   Diamond(20, 20, 40, 40), Segment("line", 0, 0, 40, 0), Segment("arrow", 0, 0, 40, 20)}

\* Pointer displacements of a resize gesture on either axis: one that inverts
\* the box, none, one that widens it.
ResizeDeltas == {-60, 0, 20}

\* The points of the eight handles of the entries of a store.
HandlePoints(stored) ==
  {handlesFor(bboxOf(stored[i].shape))[HandleNames[k]] :
     i \in 1 .. Len(stored), k \in 1 .. Len(HandleNames)}

\* Where the pointer may go down to start a resize: the centre of a handle
\* or the right rim of its square (handleSize / 2 = 6 to the right).
ResizePointers(stored) ==
  HandlePoints(stored) \cup {[x |-> p.x + 6, y |-> p.y] : p \in HandlePoints(stored)}

\* The Game of c1 on its own in a room whose history holds one shape.
InitResize ==
  /\ users = <<"c1", "c2">>
  /\ rooms = [c \in Clients |-> <<Room>>]
  /\ calls = {}
  /\ callSeq = 0
  /\ \E s \in ResizeShapes : db = <<[id |-> 1, roomId |-> 1, shape |-> s]>>
  /\ nextId = Len(db) + 1
  /\ c2r = [c \in Clients |-> <<>>]
  /\ r2c = [c \in Clients |-> <<>>]
  /\ boot = [c \in Clients |-> "done"]
  /\ bootSnap = [c \in Clients |-> <<>>]
  /\ existingShapes = [c \in Clients |-> bootShapes(roomRows(Room))]
  /\ selectedTool = [c \in Clients |-> "pencil"]
  /\ selectedShapeId = [c \in Clients |-> Null]
  /\ isDraggingShape = [c \in Clients |-> FALSE]
  /\ dragOriginalShape = [c \in Clients |-> NoShape]
  /\ ops = 0
  /\ failed = FALSE
  /\ missed = {}
  /\ completed = <<>>
  /\ activeHandle = [c \in Clients |-> Null]
  /\ resizeSelectedId = [c \in Clients |-> Null]
  /\ resizeOriginal = [c \in Clients |-> NoShape]
  /\ startPointer = [c \in Clients |-> <<>>]
  /\ preview = [c \in Clients |-> NoShape]
  /\ points = [c \in Clients |-> <<>>]
  /\ smoothed = [c \in Clients |-> <<>>]
  /\ sockets = [c \in Clients |-> "open"]
  /\ userIds = [c \in Clients |-> checkUser(TokenOf(c))]
  /\ lastPing = [c \in Clients |-> TimeStep]
  /\ pinged = [c \in Clients |-> FALSE]
  /\ mute = [c \in Clients |-> FALSE]
  /\ now = TimeStep
  /\ lastSweep = TimeStep
  /\ connects = [c \in Clients |-> 1]
  /\ presented = [c \in Clients |-> TokenOf(c)]
  /\ frames = 0
  /\ lost = {}
  /\ late = {}
  /\ erased = {}
  /\ origin = {}

\* Select on a handle (the click ends with a mouse-up where it began), press
\* on a handle with the resize tool, move, release.
NextResize ==
  \/ \E p \in HandlePoints(existingShapes["c1"]) : SelectAt("c1", p)
  \/ DragCommit("c1", 0)
  \/ \E p \in ResizePointers(existingShapes["c1"]) : ResizeDown("c1", p)
  \/ \E dx \in ResizeDeltas, dy \in ResizeDeltas : ResizePreview("c1", dx, dy)
  \/ \E dx \in ResizeDeltas, dy \in ResizeDeltas : ResizeCommit("c1", dx, dy)

SpecResize == InitResize /\ [][NextResize]_vars

\* ------------------------------------------------------------------ one stroke
\* Most points a stroke of this model records, and most strokes it draws.
MaxPoints == 4
MaxStrokes == 1

\* World points the pointer may be at while it draws.
PencilPoints == {<<x, y>> : x \in {0, 2, 4}, y \in {0, 2}}

\* Pencil.getPath of the activePencil of c
getPath(c) == smoothed[c]

\* mouseDownHandler, tool pencil: a new Pencil records the point.
PencilDown(c, p) ==
  /\ selectedTool[c] = "pencil"
  /\ ops < MaxStrokes
  /\ points' = [points EXCEPT ![c] = addPoint(<<>>, p)]
  /\ smoothed' = [smoothed EXCEPT ![c] = updateSmoothed(addPoint(<<>>, p))]
  /\ UNCHANGED <<relayVars, dbVars, netVars, gameVars, histVars, activeHandle,
                 resizeSelectedId, resizeOriginal, startPointer, preview, connVars, envVars>>

\* mouseMoveHandler, pencil drawing: addPoint, which updates the smoothed
\* points when it accepts the point.
PencilMove(c, p) ==
  /\ selectedTool[c] = "pencil"
  /\ points[c] # <<>>
  /\ Len(points[c]) < MaxPoints
  /\ points' = [points EXCEPT ![c] = addPoint(@, p)]
  /\ smoothed' =
       [smoothed EXCEPT ![c] =
          IF addPoint(points[c], p) = points[c] THEN @
          ELSE updateSmoothed(addPoint(points[c], p))]
  /\ UNCHANGED <<relayVars, dbVars, netVars, gameVars, histVars, activeHandle,
                 resizeSelectedId, resizeOriginal, startPointer, preview, connVars, envVars>>

\* mouseUpHandler, finalize pencil, at time t: the stroke's path becomes a
\* pending entry and is sent.
PencilUp(c, t) ==
  /\ ~DragPending(c)
  /\ selectedTool[c] = "pencil"
  /\ points[c] # <<>>
  /\ ops < MaxOps
  /\ LET shape == [type |-> "pencil", path |-> getPath(c)]
     IN  /\ existingShapes' = [existingShapes EXCEPT ![c] = Append(@, pendingEntry(shape, t))]
         /\ Send(c, Msg("chat", "", 0, PendingId(t), shape, <<>>))
  /\ points' = [points EXCEPT ![c] = <<>>]
  /\ smoothed' = [smoothed EXCEPT ![c] = <<>>]
  /\ ops' = ops + 1
  /\ UNCHANGED <<relayVars, dbVars, r2c, boot, bootSnap, selectedTool, selectedShapeId,
                 isDraggingShape, dragOriginalShape, failed, missed, completed,
                 activeHandle, resizeSelectedId, resizeOriginal, startPointer, preview,
                 connVars, envVars>>

NextPencil ==
  \/ \E p \in PencilPoints : PencilDown("c1", p)
  \/ \E p \in PencilPoints : PencilMove("c1", p)
  \/ \E t \in Stamps : PencilUp("c1", t)

SpecPencil == InitGame /\ [][NextPencil]_vars

\* ------------------------------------------------------------------ connections
\* heartbeat: `now - user.lastPing > 45000`, and setInterval(heartbeat, 30000).
Timeout == 45000
SweepInterval == 30000

\* wss.on("connection"): client c opens a socket whose URL carries `token`.
\* A token that does not verify to a user id closes the socket; otherwise the
\* connection is registered with no room and lastPing = Date.now().
Connect(c, token) ==
  /\ sockets[c] # "open"
  /\ connects[c] < MaxConnects
  /\ connects' = [connects EXCEPT ![c] = @ + 1]
  /\ presented' = [presented EXCEPT ![c] = token]
  /\ LET userId == checkUser(token)
     IN  IF userId = Null
         THEN /\ sockets' = [sockets EXCEPT ![c] = "closed"]
              /\ UNCHANGED <<users, rooms, userIds, lastPing, pinged, mute>>
         ELSE /\ sockets' = [sockets EXCEPT ![c] = "open"]
              /\ users' = Append(users, c)
              /\ rooms' = [rooms EXCEPT ![c] = <<>>]
              /\ userIds' = [userIds EXCEPT ![c] = userId]
              /\ lastPing' = [lastPing EXCEPT ![c] = now]
              /\ pinged' = [pinged EXCEPT ![c] = FALSE]
              /\ mute' = [mute EXCEPT ![c] = FALSE]
  /\ UNCHANGED <<calls, callSeq, dbVars, netVars, gameVars, histVars, toolVars,
                 now, lastSweep, envVars>>

\* case "join_room" once more: the room is pushed again.
RelayRejoin(c) ==
  /\ Registered(c)
  /\ rooms[c] # <<>>
  /\ Len(rooms[c]) < MaxJoins
  /\ rooms' = [rooms EXCEPT ![c] = Append(@, Room)]
  /\ UNCHANGED <<users, calls, callSeq, dbVars, netVars, gameVars, histVars,
                 toolVars, connVars, envVars>>

\* A leave_room that empties the membership of every connection.
RelayLeaveAll(c) ==
  /\ Registered(c)
  /\ rooms[c] # <<>>
  /\ rooms' = [d \in Clients |-> <<>>]
  /\ UNCHANGED <<users, calls, callSeq, dbVars, netVars, gameVars, histVars,
                 toolVars, connVars, envVars>>

\* case "leave_room": user.rooms.filter(r => r !== String(roomId)).
RelayLeave(c) ==
  /\ Registered(c)
  /\ rooms[c] # <<>>
  /\ LET stays(r) == r # Room
     IN  rooms' = [rooms EXCEPT ![c] = SelectSeq(@, stays)]
  /\ UNCHANGED <<users, calls, callSeq, dbVars, netVars, gameVars, histVars,
                 toolVars, connVars, envVars>>

\* A close handler that also abandons the handlers suspended for the connection.
CloseCancelling(c) ==
  /\ sockets[c] = "open"
  /\ sockets' = [sockets EXCEPT ![c] = "closed"]
  /\ LET others(u) == u # c IN users' = SelectSeq(users, others)
  /\ calls' = {k \in calls : k.conn # c}
  /\ UNCHANGED <<rooms, callSeq, dbVars, netVars, gameVars, histVars, toolVars,
                 userIds, lastPing, pinged, mute, now, lastSweep, connects, presented,
                 envVars>>

\* ws.on("close"): the client's socket has closed; its User leaves the registry.
Close(c) ==
  /\ sockets[c] = "open"
  /\ sockets' = [sockets EXCEPT ![c] = "closed"]
  /\ LET others(u) == u # c IN users' = SelectSeq(users, others)
  /\ UNCHANGED <<rooms, calls, callSeq, dbVars, netVars, gameVars, histVars, toolVars,
                 userIds, lastPing, pinged, mute, now, lastSweep, connects, presented,
                 envVars>>

\* Time passes at the relay, up to the moment the interval timer is due.
Tick ==
  /\ now + TimeStep <= MaxTime
  /\ now - lastSweep < SweepInterval
  /\ now' = now + TimeStep
  /\ late' = late \cup {c \in Clients : Registered(c) /\ pinged[c]}
  /\ UNCHANGED <<relayVars, dbVars, netVars, gameVars, histVars, toolVars,
                 sockets, userIds, lastPing, pinged, mute, lastSweep, connects,
                 presented, frames, lost, erased, origin>>

\* A heartbeat that finds no connection stale.
staleNever(c) == FALSE

\* heartbeat: !user.lastPing || now - user.lastPing > 45000.
stale(c) == lastPing[c] = 0 \/ now - lastPing[c] > Timeout

\* heartbeat(), run by the interval timer: stale connections are terminated
\* and spliced out of users, the others are pinged.
Sweep ==
  /\ now - lastSweep >= SweepInterval
  /\ lastSweep' = now
  /\ LET fresh(u) == ~stale(u) IN users' = SelectSeq(users, fresh)
  /\ sockets' = [c \in Clients |-> IF Registered(c) /\ stale(c) THEN "closed" ELSE sockets[c]]
  /\ pinged' = [c \in Clients |-> IF Registered(c) /\ ~stale(c) THEN TRUE ELSE pinged[c]]
  /\ UNCHANGED <<rooms, calls, callSeq, dbVars, netVars, gameVars, histVars, toolVars,
                 userIds, lastPing, mute, now, connects, presented, envVars>>

\* ws.on("pong"): the client answers the ping.
Pong(c) ==
  /\ sockets[c] = "open"
  /\ pinged[c]
  /\ ~mute[c]
  /\ lastPing' = [lastPing EXCEPT ![c] = now]
  /\ pinged' = [pinged EXCEPT ![c] = FALSE]
  /\ UNCHANGED <<relayVars, dbVars, netVars, gameVars, histVars, toolVars,
                 sockets, userIds, mute, now, lastSweep, connects, presented, envVars>>

\* The client stops answering pings (its network is gone; no close arrives).
StopAnswering(c) ==
  /\ sockets[c] = "open"
  /\ ~mute[c]
  /\ mute' = [mute EXCEPT ![c] = TRUE]
  /\ UNCHANGED <<relayVars, dbVars, netVars, gameVars, histVars, toolVars,
                 sockets, userIds, lastPing, pinged, now, lastSweep, connects,
                 presented, envVars>>

\* The relay has started: nobody is connected, the interval timer is set.
InitRelay ==
  /\ users = <<>>
  /\ rooms = [c \in Clients |-> <<>>]
  /\ calls = {}
  /\ callSeq = 0
  /\ db \in InitialHistories
  /\ nextId = Len(db) + 1
  /\ c2r = [c \in Clients |-> <<>>]
  /\ r2c = [c \in Clients |-> <<>>]
  /\ boot = [c \in Clients |-> "requested"]
  /\ bootSnap = [c \in Clients |-> <<>>]
  /\ existingShapes = [c \in Clients |-> <<>>]
  /\ selectedTool = [c \in Clients |-> "pencil"]
  /\ selectedShapeId = [c \in Clients |-> Null]
  /\ isDraggingShape = [c \in Clients |-> FALSE]
  /\ dragOriginalShape = [c \in Clients |-> NoShape]
  /\ ops = 0
  /\ failed = FALSE
  /\ missed = {}
  /\ completed = <<>>
  /\ activeHandle = [c \in Clients |-> Null]
  /\ resizeSelectedId = [c \in Clients |-> Null]
  /\ resizeOriginal = [c \in Clients |-> NoShape]
  /\ startPointer = [c \in Clients |-> <<>>]
  /\ preview = [c \in Clients |-> NoShape]
  /\ points = [c \in Clients |-> <<>>]
  /\ smoothed = [c \in Clients |-> <<>>]
  /\ sockets = [c \in Clients |-> "none"]
  /\ userIds = [c \in Clients |-> Null]
  /\ lastPing = [c \in Clients |-> 0]
  /\ pinged = [c \in Clients |-> FALSE]
  /\ mute = [c \in Clients |-> FALSE]
  /\ now = TimeStep
  /\ lastSweep = TimeStep
  /\ connects = [c \in Clients |-> 0]
  /\ presented = [c \in Clients |-> ""]
  /\ frames = 0
  /\ lost = {}
  /\ late = {}
  /\ erased = {}
  /\ origin = {}

\* Connections and room membership, up to the first run of the heartbeat.
NextRelay ==
  \/ \E c \in Clients, token \in Tokens : Connect(c, token)
  \/ \E c \in Clients : RelayJoin(c)
  \/ \E c \in Clients : RelayRejoin(c)
  \/ \E c \in Clients : RelayLeave(c)
  \/ \E c \in Clients : Close(c)
  \/ Tick

SpecRelay == InitRelay /\ [][NextRelay]_vars

\* Connections under the heartbeat: a client presents its own token or a
\* forged one.
NextHeartbeat ==
  \/ \E c \in Clients : \E token \in {TokenOf(c), "forged"} : Connect(c, token)
  \/ \E c \in Clients : Close(c)
  \/ Tick
  \/ Sweep
  \/ \E c \in Clients : Pong(c)
  \/ \E c \in Clients : StopAnswering(c)

\* The clock advances and the interval timer fires when it is due.
SpecHeartbeat == InitRelay /\ [][NextHeartbeat]_vars /\ WF_vars(Tick) /\ WF_vars(Sweep)

\* ------------------------------------------------------------------ closing under traffic
\* A client's socket sends a frame no Game sends.
SendRaw(c, m) ==
  /\ ops < MaxOps
  /\ sockets[c] = "open"
  /\ ops' = ops + 1
  /\ Send(c, m)
  /\ UNCHANGED <<relayVars, dbVars, r2c, gameVars, failed, missed, completed, toolVars,
                 connVars, envVars>>

\* The relay with both clients joined, while they create and move shapes and
\* their connections close or, not answering the pings, are evicted.
NextClose ==
  \/ \E c \in Clients, x \in Xs : CreateShape(c, x, 1)
  \/ \E p \in Pointers : SelectAt("c1", p)
  \/ \E dx \in Deltas : DragCommit("c1", dx)
  \/ \E c \in Clients : RelayOnMessage(c)
  \/ \E k \in calls : DbExec(k, TRUE)
  \/ \E k \in calls : DbExec(k, FALSE)
  \/ \E k \in calls : RelayResume(k)
  \/ \E c \in Clients : Close(c)
  \/ Tick
  \/ Sweep

\* The database answers every call and every handler resumes.
SpecClose ==
  /\ InitGame /\ [][NextClose]_vars
  /\ WF_vars(\E k \in calls : DbExec(k, TRUE))
  /\ WF_vars(\E k \in calls : RelayResume(k))

\* The relay with both clients joined, while their sockets send the frames of
\* creations and malformed frames.
NextFrames ==
  \/ \E c \in Clients, x \in Xs, t \in Stamps : CreateShape(c, x, t)
  \/ \E c \in Clients, m \in Malformed : SendRaw(c, m)
  \/ \E c \in Clients : RelayOnMessage(c)
  \/ \E k \in calls, up \in BOOLEAN : DbExec(k, up)
  \/ \E k \in calls : RelayResume(k)
  \/ \E c \in Clients : RelayLeave(c)

SpecFrames == InitGame /\ [][NextFrames]_vars

\* ------------------------------------------------------------------ rooms
\* Another room of the server.
OtherRoom == "2"

\* case "join_room" on a frame that names another room.
RelayJoinOther(c) ==
  /\ Registered(c)
  /\ Len(rooms[c]) < MaxJoins
  /\ ~Includes(rooms[c], OtherRoom)
  /\ rooms' = [rooms EXCEPT ![c] = Append(@, OtherRoom)]
  /\ UNCHANGED <<users, calls, callSeq, dbVars, netVars, gameVars, histVars,
                 toolVars, connVars, envVars>>

\* Both clients have connected with a valid token and have joined no room
\* yet; their Games have loaded the room's rows.
InitRooms ==
  /\ users = <<"c1", "c2">>
  /\ rooms = [c \in Clients |-> <<>>]
  /\ calls = {}
  /\ callSeq = 0
  /\ db \in InitialHistories
  /\ nextId = Len(db) + 1
  /\ c2r = [c \in Clients |-> <<>>]
  /\ r2c = [c \in Clients |-> <<>>]
  /\ boot = [c \in Clients |-> "done"]
  /\ bootSnap = [c \in Clients |-> <<>>]
  /\ existingShapes = [c \in Clients |-> bootShapes(roomRows(Room))]
  /\ selectedTool = [c \in Clients |-> "pencil"]
  /\ selectedShapeId = [c \in Clients |-> Null]
  /\ isDraggingShape = [c \in Clients |-> FALSE]
  /\ dragOriginalShape = [c \in Clients |-> NoShape]
  /\ ops = 0
  /\ failed = FALSE
  /\ missed = {}
  /\ completed = <<>>
  /\ activeHandle = [c \in Clients |-> Null]
  /\ resizeSelectedId = [c \in Clients |-> Null]
  /\ resizeOriginal = [c \in Clients |-> NoShape]
  /\ startPointer = [c \in Clients |-> <<>>]
  /\ preview = [c \in Clients |-> NoShape]
  /\ points = [c \in Clients |-> <<>>]
  /\ smoothed = [c \in Clients |-> <<>>]
  /\ sockets = [c \in Clients |-> "open"]
  /\ userIds = [c \in Clients |-> checkUser(TokenOf(c))]
  /\ lastPing = [c \in Clients |-> TimeStep]
  /\ pinged = [c \in Clients |-> FALSE]
  /\ mute = [c \in Clients |-> FALSE]
  /\ now = TimeStep
  /\ lastSweep = TimeStep
  /\ connects = [c \in Clients |-> 1]
  /\ presented = [c \in Clients |-> TokenOf(c)]
  /\ frames = 0
  /\ lost = {}
  /\ late = {}
  /\ erased = {}
  /\ origin = {}

\* Connections join the room (once or again), join another room and leave,
\* while their Games send the chat messages of creations in the room.
NextRooms ==
  \/ \E c \in Clients : RelayJoin(c)
  \/ \E c \in Clients : RelayRejoin(c)
  \/ \E c \in Clients : RelayJoinOther(c)
  \/ \E c \in Clients : RelayLeave(c)
  \/ \E c \in Clients, x \in Xs : CreateShape(c, x, 1)
  \/ \E c \in Clients : RelayOnMessage(c)
  \/ \E k \in calls : DbExec(k, TRUE)
  \/ \E k \in calls : RelayResume(k)

SpecRooms == InitRooms /\ [][NextRooms]_vars

\* ------------------------------------------------------------------ confirmation
\* World x coordinates where the creations of two joined clients may start.
ConfirmXs == {0, 50}

\* Both clients are joined with their sockets open and create shapes; the
\* database answers every call.
NextConfirm ==
  \/ \E c \in Clients, x \in ConfirmXs, t \in Stamps : CreateShape(c, x, t)
  \/ \E c \in Clients : RelayOnMessage(c)
  \/ \E k \in calls : DbExec(k, TRUE)
  \/ \E k \in calls : RelayResume(k)
  \/ \E c \in Clients : ClientOnMessage(c)

\* Every frame a socket has delivered is handled, the database answers every
\* call and every handler resumes.
SpecConfirm ==
  /\ InitGame /\ [][NextConfirm]_vars
  /\ \A c \in Clients : WF_vars(RelayOnMessage(c)) /\ WF_vars(ClientOnMessage(c))
  /\ WF_vars(\E k \in calls : DbExec(k, TRUE))
  /\ WF_vars(\E k \in calls : RelayResume(k))

\* ------------------------------------------------------------------ after a lost chat
\* c1 has created a shape at time 1 and the append of its chat message has
\* failed: the handler has ended and c1 still shows the pending entry.  Both
\* clients are joined and go on creating.
InitLoss ==
  /\ users = <<"c1", "c2">>
  /\ rooms = [c \in Clients |-> <<Room>>]
  /\ calls = {}
  /\ callSeq = 1
  /\ db \in InitialHistories
  /\ nextId = Len(db) + 1
  /\ c2r = [c \in Clients |-> <<>>]
  /\ r2c = [c \in Clients |-> <<>>]
  /\ boot = [c \in Clients |-> "done"]
  /\ bootSnap = [c \in Clients |-> <<>>]
  /\ existingShapes =
       [c \in Clients |->
          IF c = "c1" THEN Append(bootShapes(roomRows(Room)), pendingEntry(Rect(0), 1))
          ELSE bootShapes(roomRows(Room))]
  /\ selectedTool = [c \in Clients |-> IF c = "c1" THEN "rect" ELSE "pencil"]
  /\ selectedShapeId = [c \in Clients |-> Null]
  /\ isDraggingShape = [c \in Clients |-> FALSE]
  /\ dragOriginalShape = [c \in Clients |-> NoShape]
  /\ ops = 0
  /\ failed = TRUE
  /\ missed = {}
  /\ completed = <<>>
  /\ activeHandle = [c \in Clients |-> Null]
  /\ resizeSelectedId = [c \in Clients |-> Null]
  /\ resizeOriginal = [c \in Clients |-> NoShape]
  /\ startPointer = [c \in Clients |-> <<>>]
  /\ preview = [c \in Clients |-> NoShape]
  /\ points = [c \in Clients |-> <<>>]
  /\ smoothed = [c \in Clients |-> <<>>]
  /\ sockets = [c \in Clients |-> "open"]
  /\ userIds = [c \in Clients |-> checkUser(TokenOf(c))]
  /\ lastPing = [c \in Clients |-> TimeStep]
  /\ pinged = [c \in Clients |-> FALSE]
  /\ mute = [c \in Clients |-> FALSE]
  /\ now = TimeStep
  /\ lastSweep = TimeStep
  /\ connects = [c \in Clients |-> 1]
  /\ presented = [c \in Clients |-> TokenOf(c)]
  /\ frames = 0
  /\ lost = {[conn |-> "c1", tempId |-> PendingId(1)]}
  /\ late = {}
  /\ erased = {}
  /\ origin = {}

NextLoss ==
  \/ \E c \in Clients, x \in Xs, t \in Stamps : CreateShape(c, x, t)
  \/ \E c \in Clients : RelayOnMessage(c)
  \/ \E k \in calls, up \in BOOLEAN : DbExec(k, up)
  \/ \E k \in calls : RelayResume(k)
  \/ \E c \in Clients : ClientOnMessage(c)

SpecLoss == InitLoss /\ [][NextLoss]_vars

\* ------------------------------------------------------------------ claims: vocabulary
\* Client c's Game sends one message in this step: SentFrame(c).
Sends(c) == Len(c2r'[c]) = Len(c2r[c]) + 1 /\ SubSeq(c2r'[c], 1, Len(c2r[c])) = c2r[c]
SentFrame(c) == c2r'[c][Len(c2r'[c])]

\* The ephemeral ids a Game can mint.
PendingIds == {PendingId(t) : t \in Stamps}

\* The entries of a store whose id is not `id`, in their order.
Others(store, id) == LET other(e) == e.id # id IN SelectSeq(store, other)

\* The frame at the head of a channel ("none" when it is empty).
NextFrame(q) == IF q = <<>> THEN Msg("none", "", 0, Undefined, NoShape, <<>>) ELSE Head(q)

\* Client c's socket.onmessage runs in this step, on NextFrame(r2c[c]).
Handles(c) == r2c[c] # <<>> /\ r2c'[c] = Tail(r2c[c])

\* The relay's handler starts in this step on NextFrame(c2r[c]).
Receives(c) == c2r[c] # <<>> /\ c2r'[c] = Tail(c2r[c])

\* The handler suspended as k runs to its end in this step.
Resumes(k) == k \in calls /\ k.state # "issued" /\ k \notin calls'

\* The connections whose membership includes roomId now.
Members(roomId) == {u \in Clients : Registered(u) /\ Includes(rooms[u], roomId)}

\* In this step exactly the members of roomId are sent payload, once each.
BroadcastsOnce(roomId, payload) ==
  \A u \in Clients :
    r2c'[u] = IF u \in Members(roomId) THEN Append(r2c[u], payload) ELSE r2c[u]

\* Nothing is sent to any client in this step.
SendsNothing == \A u \in Clients : Len(r2c'[u]) <= Len(r2c[u])

\* The id-to-shape records of a store and of the persisted history.
StoreRecords(c) ==
  {[id |-> existingShapes[c][i].id, shape |-> existingShapes[c][i].shape] :
     i \in 1 .. Len(existingShapes[c])}
DbRecords == {[id |-> NatToStr(db[i].id), shape |-> db[i].shape] : i \in 1 .. Len(db)}

\* Nothing is in flight: no frame, no persistence call, no bootstrap read.
Quiescent ==
  /\ \A c \in Clients : c2r[c] = <<>> /\ r2c[c] = <<>> /\ boot[c] = "done"
  /\ calls = {}

\* Every client is joined and no broadcast has passed it over.
JoinedThroughout == missed = {} /\ \A c \in Clients : Includes(rooms[c], Room)

\* ------------------------------------------------------------------ claims
\* C1: in every reachable state no two entries of a client's store have the
\* same id.
C1_UniqueIds ==
  \A c \in Clients : \A i, j \in 1 .. Len(existingShapes[c]) :
    i # j => existingShapes[c][i].id # existingShapes[c][j].id

\* C2: a chat event (tempId T, durable id D) handled by a client holding an
\* entry whose id or tempId is T replaces that entry in place by
\* {id: D, shape} without tempId, leaves every other entry unchanged, and
\* leaves exactly one entry with id D and none with id T.
C2_ReconcileInPlace ==
  [][\A c \in Clients :
       LET m == NextFrame(r2c[c])
           old == existingShapes[c]
           new == existingShapes'[c]
           T == m.tempId
           D == NatToStr(m.dbId)
           matching == {i \in 1 .. Len(old) : old[i].id = T \/ old[i].tempId = T}
       IN  (Handles(c) /\ m.type = "chat" /\ T # Undefined /\ matching # {})
           => /\ Len(new) = Len(old)
              /\ \E i \in matching :
                   /\ new[i] = Stored(D, m.shape, Undefined)
                   /\ \A j \in 1 .. Len(old) : j # i => new[j] = old[j]
              /\ Cardinality({j \in 1 .. Len(new) : new[j].id = D}) = 1
              /\ \A j \in 1 .. Len(new) : new[j].id # T]_vars

\* Chat events a client can be handed: a pending or absent tempId, a durable id.
ChatEvents ==
  {Msg("chat", "", d, T, Rect(x), <<>>) :
     d \in 1 .. 3, T \in {PendingId(t) : t \in Stamps} \cup {Undefined}, x \in Xs}

\* C3: for every store and every chat event, handling the same event a second
\* time leaves the store as it was after the first time.
C3_ReconcileIdempotent ==
  \A c \in Clients : \A m \in ChatEvents :
    onChat(onChat(existingShapes[c], m), m) = onChat(existingShapes[c], m)

\* C4: with no persistence failure and all clients joined throughout, once
\* nothing is in flight every client's store holds exactly the records of the
\* room's persisted history.
C4_EventualConsistency ==
  (Quiescent /\ ~failed /\ JoinedThroughout)
    => \A c \in Clients : StoreRecords(c) = DbRecords

\* C5: when two clients sent update for the same id with different shapes and
\* both calls succeeded, then once nothing is in flight the persisted row and
\* every joined client's store hold the shape of the call that completed last.
C5_LastCompletedWriteWins ==
  (/\ Quiescent /\ ~failed /\ JoinedThroughout
   /\ Len(completed) = 2
   /\ completed[1].id = completed[2].id
   /\ completed[1].conn # completed[2].conn
   /\ completed[1].shape # completed[2].shape)
    => LET won == [id |-> completed[2].id, shape |-> completed[2].shape]
       IN  /\ won \in DbRecords
           /\ \A c \in Clients : won \in StoreRecords(c)

\* C6: on chat the relay awaits the append and then sends
\* {chat, id: D, tempId, shape}, tempId and shape as received, exactly once to
\* every connection whose membership includes the room at that moment (the
\* sender too when it is a member), and to nobody before the append returns.
C6_ChatBroadcast ==
  [][/\ \A c \in Clients :
          (Receives(c) /\ NextFrame(c2r[c]).type = "chat")
            => /\ SendsNothing
               /\ \E k \in calls' \ calls :
                    /\ k.kind = "create" /\ k.state = "issued" /\ k.conn = c
                    /\ k.tempId = NextFrame(c2r[c]).tempId
                    /\ k.shape = NextFrame(c2r[c]).shape
                    /\ k.roomId = NextFrame(c2r[c]).roomId
     /\ \A k \in calls :
          (k.kind = "create" /\ k.state = "issued" /\ k \notin calls')
            => /\ SendsNothing
               /\ \E d \in calls' \ calls :
                    /\ d = [k EXCEPT !.state = d.state, !.dbId = d.dbId]
                    /\ d.state = "ok" =>
                         /\ db' = Append(db, [id |-> d.dbId, roomId |-> Number(k.roomId),
                                              shape |-> k.shape])
                         /\ \A i \in 1 .. Len(db) : db[i].id # d.dbId
     /\ \A k \in calls :
          (Resumes(k) /\ k.kind = "create" /\ k.state = "ok")
            => BroadcastsOnce(k.roomId, Msg("chat", "", k.dbId, k.tempId, k.shape, <<>>))]_vars

\* C6 witness: the chat event has been sent to a member and not to a
\* connection outside the room.
C6_Witness ==
  \E u, v \in Clients :
    /\ Includes(rooms[u], Room) /\ ~Includes(rooms[v], Room)
    /\ r2c[u] # <<>> /\ Head(r2c[u]).type = "chat" /\ Head(r2c[u]).dbId = 2
    /\ Head(r2c[u]).tempId \in {PendingId(t) : t \in Stamps}
    /\ r2c[v] = <<>>

\* C7: on reorder the relay sends the received order unchanged to every
\* connection joined to the room and makes no persistence call.
C7_ReorderBroadcast ==
  [][\A c \in Clients :
       LET m == NextFrame(c2r[c])
       IN  (Receives(c) /\ m.type = "reorder")
           => /\ BroadcastsOnce(m.roomId, Msg("reorder", "", 0, Undefined, NoShape, m.order))
              /\ calls' = calls
              /\ db' = db]_vars

\* C8: the handler of a delete message broadcasts {delete, id} to the members
\* of the room before it ends, whatever the validation of the id and the
\* persistence delete gave.
C8_DeleteAlwaysBroadcast ==
  [][/\ \A c \in Clients :
          LET m == NextFrame(c2r[c])
          IN  (Receives(c) /\ m.type = "delete" /\ calls' = calls)
              => BroadcastsOnce(m.roomId, Msg("delete", m.id, 0, Undefined, NoShape, <<>>))
     /\ \A k \in calls :
          (Resumes(k) /\ k.kind = "delete")
            => BroadcastsOnce(k.roomId, Msg("delete", k.id, 0, Undefined, NoShape, <<>>))]_vars

\* C9: a persistence delete is issued only for an id that converts to a
\* number; a delete of a pending-... id issues no persistence call, and a row
\* leaves the history only through a delete call for its numeric id.
C9_DeleteOnlyDurable ==
  [][/\ \A k \in calls' \ calls :
          (k.kind = "delete" /\ k.state = "issued") => Number(k.id) # NaN
     /\ \A c \in Clients :
          LET m == NextFrame(c2r[c])
          IN  (Receives(c) /\ m.type = "delete"
                 /\ m.id \in {PendingId(t) : t \in Stamps})
              => calls' = calls
     /\ \A i \in 1 .. Len(db) :
          (\A j \in 1 .. Len(db') : db'[j].id # db[i].id)
            => \E k \in calls :
                 k.kind = "delete" /\ k.state = "issued" /\ Number(k.id) = db[i].id]_vars

\* C9 witness: a persistence delete is in flight while a client holds a
\* pending entry.
C9_Witness ==
  /\ \E k \in calls : k.kind = "delete" /\ k.state = "ok"
  /\ \E c \in Clients : \E i \in 1 .. Len(existingShapes[c]) :
       existingShapes[c][i].id \in {PendingId(t) : t \in Stamps}

\* C10: on update the relay broadcasts {update, id, shape} to the room only
\* once the persistence update has succeeded; when it has failed the handler
\* ends sending nothing to anybody and issuing no further call.
C10_UpdateAfterPersist ==
  [][/\ \A c \in Clients :
          (Receives(c) /\ NextFrame(c2r[c]).type = "update") => SendsNothing
     /\ \A k \in calls :
          (k.kind = "update" /\ k.state = "issued" /\ k \notin calls') => SendsNothing
     /\ \A k \in calls :
          (Resumes(k) /\ k.kind = "update" /\ k.state = "ok")
            => BroadcastsOnce(k.roomId, Msg("update", k.id, 0, Undefined, k.shape, <<>>))
     /\ \A k \in calls :
          (Resumes(k) /\ k.kind = "update" /\ k.state = "err")
            => /\ r2c' = r2c
               /\ c2r' = c2r
               /\ calls' = calls \ {k}
               /\ db' = db
     /\ \A u \in Clients :
          (Len(r2c'[u]) > Len(r2c[u]) /\ r2c'[u][Len(r2c'[u])].type = "update")
            => \E k \in calls : Resumes(k) /\ k.kind = "update" /\ k.state = "ok"]_vars

\* C10 witness: a persistence update has failed and its handler is about to
\* end, with a member in the room to whom a broadcast would go.
C10_Witness ==
  /\ \E k \in calls : k.kind = "update" /\ k.state = "err"
  /\ \E u \in Clients : Includes(rooms[u], Room)

\* C11: when the append of a chat has failed the relay's handler ends sending
\* nothing to anybody, the sender included, and the entry the sender holds for
\* it (the one entry of its store with that pending id) keeps that id through
\* every chat event the sender handles afterwards.
C11_LostChatStaysPending ==
  [][/\ \A k \in calls :
          (Resumes(k) /\ k.kind = "create" /\ k.state = "err") => r2c' = r2c
     /\ \A c \in Clients : \A T \in PendingIds :
          LET old == existingShapes[c]
              new == existingShapes'[c]
              held == {i \in 1 .. Len(old) : old[i].id = T}
          IN  (/\ [conn |-> c, tempId |-> T] \in lost
               /\ Cardinality(held) = 1
               /\ Handles(c) /\ NextFrame(r2c[c]).type = "chat")
              => \A i \in held : i <= Len(new) /\ new[i].id = T]_vars

\* C12: an update event handled by a client replaces the shape of the entry
\* with its id, in place and leaving every other entry as it was; when no
\* entry has the id it appends {id, shape} at the end of the order.
C12_UpdateReplacesOrAppends ==
  [][\A c \in Clients :
       LET m == NextFrame(r2c[c])
           old == existingShapes[c]
           new == existingShapes'[c]
           present == {i \in 1 .. Len(old) : old[i].id = m.id}
       IN  (Handles(c) /\ m.type = "update")
           => IF present # {}
              THEN /\ Len(new) = Len(old)
                   /\ \E i \in present :
                        /\ new[i] = [old[i] EXCEPT !.shape = m.shape]
                        /\ \A j \in 1 .. Len(old) : j # i => new[j] = old[j]
              ELSE new = Append(old, Stored(m.id, m.shape, Undefined))]_vars

\* C12 witness: the update of an id the store did not hold has been applied:
\* its entry is the last of the store and carries the update's shape.
C12_Witness ==
  LET store == existingShapes["c1"]
  IN  /\ Len(store) >= 2
      /\ store[Len(store)] = Stored("2", Rect(50), Undefined)
      /\ frames >= 1 /\ r2c["c1"] = <<>>

\* C13: a delete event handled by a client leaves exactly the entries with
\* other ids, in their order (so the store is unchanged when no entry has the
\* id), and handling the same delete once more would change nothing.
C13_DeleteIdempotent ==
  [][\A c \in Clients :
       LET m == NextFrame(r2c[c])
           old == existingShapes[c]
           new == existingShapes'[c]
       IN  (Handles(c) /\ m.type = "delete")
           => /\ new = Others(old, m.id)
              /\ (\A i \in 1 .. Len(old) : old[i].id # m.id) => new = old
              /\ onDelete(new, m) = new
              /\ onDelete(onDelete(old, m), m) = onDelete(old, m)]_vars

\* C13 witness: a delete is about to be handled by a store that holds the id
\* in front of another entry.
C13_Witness ==
  LET store == existingShapes["c1"]
  IN  /\ r2c["c1"] # <<>> /\ Head(r2c["c1"]).type = "delete"
      /\ Len(store) >= 2
      /\ store[1].id = Head(r2c["c1"]).id

\* C14: a delete event for the selected shape clears the selection and ends
\* the resize in progress; and a Game sends an update only for the shape that
\* is selected, or being resized, when the gesture ends: none for a shape
\* whose delete has cleared both.
C14_DeleteCancelsResize ==
  [][\A c \in Clients :
       LET m == NextFrame(r2c[c])
       IN  /\ (Handles(c) /\ m.type = "delete" /\ m.id = selectedShapeId[c])
                => /\ selectedShapeId'[c] = Null
                   /\ activeHandle'[c] = Null
                   /\ \A i \in 1 .. Len(existingShapes'[c]) : existingShapes'[c][i].id # m.id
           /\ (Sends(c) /\ SentFrame(c).type = "update")
                => \/ selectedShapeId[c] = SentFrame(c).id
                   \/ activeHandle[c] # Null /\ resizeSelectedId[c] = SentFrame(c).id]_vars

\* C14 witness: the delete of the selected shape is about to be handled while
\* a resize of that shape is in progress.
C14_Witness ==
  /\ r2c["c1"] # <<>> /\ Head(r2c["c1"]).type = "delete"
  /\ Head(r2c["c1"]).id = selectedShapeId["c1"]
  /\ selectedTool["c1"] = "resize"
  /\ activeHandle["c1"] # Null
  /\ resizeSelectedId["c1"] = selectedShapeId["c1"]

\* C15: a reorder event handled by a client keeps every entry whose id the
\* order does not name: after the entries the order names come exactly those
\* entries, in the order they had.
C15_ReorderKeepsUnmentioned ==
  [][\A c \in Clients :
       LET m == NextFrame(r2c[c])
           old == existingShapes[c]
           new == existingShapes'[c]
           named(e) == \E i \in 1 .. Len(m.order) : m.order[i] = e.id
           unnamed(e) == ~named(e)
           n == Cardinality({i \in 1 .. Len(m.order) :
                               \E j \in 1 .. Len(old) : old[j].id = m.order[i]})
       IN  (Handles(c) /\ m.type = "reorder")
           => /\ Len(new) >= n
              /\ SubSeq(new, n + 1, Len(new)) = SelectSeq(old, unnamed)]_vars

\* An id no store holds.
AbsentId == "absent"

\* C16: bringToFront(id) on an id of the store moves that entry to the end,
\* keeps the order of the others and sends one reorder message carrying the
\* ids of the store after the move; on an absent id it changes nothing and
\* sends nothing.
C16_BringToFront ==
  [][\A c \in Clients :
       LET old == existingShapes[c]
           new == existingShapes'[c]
           absent == bringToFront(old, AbsentId)
       IN  /\ absent.store = old /\ absent.sent = <<>>
           /\ (Sends(c) /\ SentFrame(c).type = "reorder")
                => /\ \E i \in 1 .. Len(old) :
                        /\ new = Append(RemoveAt(old, i), old[i])
                        /\ \A j \in 1 .. (i - 1) : old[j].id # old[i].id
                   /\ SentFrame(c).order = Ids(new)
                   /\ Len(c2r'[c]) = Len(c2r[c]) + 1]_vars

\* C16 witness: a reorder message has been sent after an entry that was not
\* the last one was moved to the end.
C16_Witness ==
  LET sent == c2r["c1"]
      store == existingShapes["c1"]
  IN  /\ sent # <<>> /\ sent[Len(sent)].type = "reorder"
      /\ Len(store) = 2 /\ store[2].id = "1"
      /\ sent[Len(sent)].order = Ids(store)

\* C17: the end of a creation gesture appends an entry whose id is a
\* pending-... id no entry of the store had, with tempId equal to the id, in
\* the same step that sends the chat message of that tempId and shape, no
\* frame of the relay being handled in between.
C17_OptimisticAppend ==
  [][\A c \in Clients :
       LET old == existingShapes[c]
           new == existingShapes'[c]
           u == SentFrame(c)
       IN  (Sends(c) /\ u.type = "chat")
           => /\ u.tempId \in PendingIds
              /\ new = Append(old, Stored(u.tempId, u.shape, u.tempId))
              /\ \A i \in 1 .. Len(old) : old[i].id # u.tempId
              /\ r2c' = r2c]_vars

\* C18: a step that changes the membership of a registered connection (its
\* join_room or leave_room) pushes the room or filters it out, leaves the
\* membership of every other connection and the registry as they were, makes
\* no persistence call and sends nothing.
C18_JoinLeaveFrame ==
  [][\A c \in Clients :
       LET other(r) == r # Room
       IN
       (Registered(c) /\ rooms'[c] # rooms[c])
         => /\ \/ rooms'[c] = Append(rooms[c], Room)
               \/ rooms'[c] = SelectSeq(rooms[c], other) /\ ~Includes(rooms'[c], Room)
            /\ \A d \in Clients \ {c} : rooms'[d] = rooms[d]
            /\ users' = users
            /\ calls' = calls /\ callSeq' = callSeq
            /\ db' = db
            /\ r2c' = r2c]_vars

\* C18 witness: c1 has joined twice while c2 is a member.
C18_Witness ==
  /\ Registered("c1") /\ Registered("c2")
  /\ rooms["c1"] = <<Room, Room>>
  /\ rooms["c2"] = <<Room>>

\* The tokens that carry a valid signature and a user id.
VerifiedTokens == {"signed-u1", "signed-u2"}

\* C19: every registered connection presented a token that verifies to a user
\* id, which it carries; a socket whose token does not verify is closed and
\* the registry is left as it was; a connection enters the registry only in
\* the step that accepts its socket, with no room and lastPing the time of
\* that step.
C19_RegisteredAreVerified ==
  [][\A c \in Clients :
       /\ Includes(users', c) => presented'[c] \in VerifiedTokens /\ userIds'[c] \in {"u1", "u2"}
       /\ (connects'[c] = connects[c] + 1 /\ presented'[c] \notin VerifiedTokens)
            => sockets'[c] = "closed" /\ users' = users
       /\ (~Includes(users, c) /\ Includes(users', c))
            => /\ connects'[c] = connects[c] + 1
               /\ sockets'[c] = "open"
               /\ rooms'[c] = <<>>
               /\ lastPing'[c] = now /\ lastPing'[c] > 0]_vars

\* C19 witness: c1 was registered after time had passed, with no room and
\* the time of its registration, while c2's forged token got its socket closed.
C19_Witness ==
  /\ Registered("c1") /\ rooms["c1"] = <<>>
  /\ now > TimeStep /\ lastPing["c1"] = now
  /\ ~Registered("c2") /\ sockets["c2"] = "closed" /\ presented["c2"] = "forged"

\* C20: a run of the heartbeat terminates and deregisters each connection
\* whose last signal is more than 45 s old and keeps and pings every other;
\* it only evicts a connection that let time pass with a ping unanswered; and
\* a registered connection that has stopped answering is deregistered in the
\* end (given the time left for two more runs).
C20_LivenessEviction ==
  /\ [][\A c \in Clients :
          (Registered(c) /\ lastSweep' # lastSweep)
            => /\ IF now - lastPing[c] > 45000
                  THEN ~Includes(users', c) /\ sockets'[c] = "closed"
                  ELSE Includes(users', c) /\ pinged'[c] /\ sockets'[c] = sockets[c]
               /\ ~Includes(users', c) => c \in late]_vars
  /\ \A c \in Clients :
       (Registered(c) /\ mute[c] /\ now <= MaxTime - 75000) ~> ~Registered(c)

\* C20 witness: the heartbeat is due while c1, which has stopped answering,
\* is stale and c2, which answered, is not.
C20_Witness ==
  /\ now - lastSweep >= SweepInterval
  /\ Registered("c1") /\ mute["c1"] /\ now - lastPing["c1"] > 45000
  /\ Registered("c2") /\ "c2" \notin late /\ now - lastPing["c2"] <= 45000
  /\ lastPing["c2"] < now

\* The event the handler suspended as k broadcasts when its call has succeeded.
EventOf(k) ==
  IF k.kind = "create" THEN Msg("chat", "", k.dbId, k.tempId, k.shape, <<>>)
  ELSE Msg(k.kind, k.id, 0, Undefined, IF k.kind = "update" THEN k.shape ELSE NoShape, <<>>)

\* C21: the step that deregisters a connection (its close, or its eviction by
\* the heartbeat) leaves every suspended persistence call, the rows and the
\* frames already sent as they were; the call of a deregistered connection is
\* still run by the database and, when it has succeeded, its event is sent
\* once to each remaining member of the room and not to the deregistered
\* connection; and every such call does come to its end.
C21_CloseKeepsCalls ==
  /\ [][/\ \A c \in Clients :
            (Registered(c) /\ ~Includes(users', c))
              => calls' = calls /\ db' = db /\ r2c' = r2c
        /\ \A k \in calls :
            (~Registered(k.conn) /\ k.state = "issued" /\ k \notin calls')
              => \E d \in calls' \ calls :
                   /\ d.n = k.n /\ d.state \in {"ok", "err"}
                   /\ d.state = "ok" => db' = dbApply(k)
        /\ \A k \in calls :
            (~Registered(k.conn) /\ Resumes(k) /\ k.state = "ok")
              => /\ BroadcastsOnce(k.roomId, EventOf(k))
                 /\ r2c'[k.conn] = r2c[k.conn]]_vars
  /\ \A n \in 1 .. MaxOps :
       (\E k \in calls : k.n = n /\ ~Registered(k.conn)) ~> (\A k \in calls : k.n # n)

\* C21 witness: the call of a connection that is no longer registered has
\* succeeded and its handler is about to resume, with the other client still
\* registered in the room.
C21_Witness ==
  \E k \in calls : \E u \in Clients \ {k.conn} :
    /\ k.state = "ok" /\ ~Registered(k.conn) /\ Includes(rooms[k.conn], k.roomId)
    /\ Registered(u) /\ Includes(rooms[u], k.roomId)

\* C22: the handler of a frame that does not parse, has no type or has a type
\* the relay has no case for ends without a persistence call, without sending
\* anything and without changing any membership, and leaves the sender
\* registered with its socket open.
C22_MalformedDropped ==
  [][\A c \in Clients :
       LET m == NextFrame(c2r[c])
       IN  (Receives(c) /\ m \in Malformed)
           => /\ calls' = calls /\ callSeq' = callSeq
              /\ db' = db
              /\ r2c' = r2c
              /\ rooms' = rooms
              /\ users' = users /\ Registered(c)
              /\ sockets' = sockets /\ sockets[c] = "open"]_vars

\* C23: once a client has erased an entry, pending or confirmed, and nothing
\* is in flight any more (no persistence failure, every client joined and
\* passed over by no broadcast), its store holds no entry with the erased id
\* and no entry with the durable id the relay gave to the erased pending shape.
C23_ErasedStaysAbsent ==
  (Quiescent /\ ~failed /\ JoinedThroughout)
    => \A e \in erased :
         \A i \in 1 .. Len(existingShapes[e.conn]) :
           /\ existingShapes[e.conn][i].id # e.id
           /\ \A o \in origin :
                (o.conn = e.conn /\ o.tempId = e.id)
                  => existingShapes[e.conn][i].id # NatToStr(o.dbId)

\* C24: every update message a Game sends carries an id that converts to a
\* number (a durable id, never a pending-... id) and the shape its store now
\* holds for that id.
C24_UpdateCarriesDurableId ==
  [][\A c \in Clients :
       LET u == SentFrame(c)
       IN  (Sends(c) /\ u.type = "update")
           => /\ u.id \notin PendingIds
              /\ Number(u.id) # NaN
              /\ u.shape # NoShape
              /\ \A i \in 1 .. Len(existingShapes'[c]) :
                   existingShapes'[c][i].id = u.id => existingShapes'[c][i].shape = u.shape]_vars

\* C25: the step in which Game.init stores the response of the bootstrap read
\* keeps every entry the store held before it.
C25_BootKeepsEntries ==
  [][\A c \in Clients :
       (boot[c] = "responded" /\ boot'[c] = "done")
         => \A i \in 1 .. Len(existingShapes[c]) :
              \E j \in 1 .. Len(existingShapes'[c]) :
                existingShapes'[c][j] = existingShapes[c][i]]_vars

\* C26: at every point where findShapeAt finds no shape the eraser click
\* returns the store as it was and sends nothing; a local step that sends
\* nothing leaves the store as it was, and a delete message is only sent for
\* the id of an entry the step removes.
C26_EraserMiss ==
  /\ \A c \in Clients : \A p \in GamePointers \cup {FarPointer} :
       findShapeAt(p.x, p.y, existingShapes[c]) = Null
         => /\ eraseAt(existingShapes[c], p.x, p.y).store = existingShapes[c]
            /\ eraseAt(existingShapes[c], p.x, p.y).sent = <<>>
  /\ [][\A c \in Clients :
          /\ (~Handles(c) /\ c2r'[c] = c2r[c]) => existingShapes'[c] = existingShapes[c]
          /\ (Sends(c) /\ SentFrame(c).type = "delete")
               => /\ \E i \in 1 .. Len(existingShapes[c]) :
                       existingShapes[c][i].id = SentFrame(c).id
                  /\ existingShapes'[c] = Others(existingShapes[c], SentFrame(c).id)]_vars

\* C26 witness: the eraser has been clicked and nothing was sent: the click
\* matched no shape, and the store still holds the shapes it was loaded with.
C26_Witness ==
  /\ selectedTool["c1"] = "eraser" /\ ops = 1 /\ frames = 0
  /\ c2r["c1"] = <<>>
  /\ existingShapes["c1"] = bootShapes(roomRows(Room))
  /\ findShapeAt(FarPointer.x, FarPointer.y, existingShapes["c1"]) = Null

\* C27: for every entry of a store, findAt at the se handle point of the
\* entry's bounding box selects the entry and reports part handle, handle se.
C27_SeHandleReported ==
  \A c \in Clients : \A i \in 1 .. Len(existingShapes[c]) :
    LET p == handlesFor(bboxOf(existingShapes[c][i].shape)).se
        found == findAt(p.x, p.y, existingShapes[c])
    IN  /\ found.id = existingShapes[c][i].id
        /\ found.part = "handle"
        /\ found.handle = "se"

\* C28: the shape applyResize returns for a resize preview has a bounding
\* box at least 6 wide and 6 high.
C28_ResizeKeepsMinimum ==
  \A c \in Clients :
    preview[c] # NoShape => bboxOf(preview[c]).w >= 6 /\ bboxOf(preview[c]).h >= 6

\* The shape of the entry `id` of a store (NoShape when there is none).
ShapeOf(store, id) ==
  IF \E i \in 1 .. Len(store) : store[i].id = id
  THEN store[CHOOSE i \in 1 .. Len(store) : store[i].id = id].shape
  ELSE NoShape

\* C30: during a resize gesture the preview drawn is applyResize of the shape
\* the store held at startResize and of the pointer's displacement, whatever
\* was previewed before; a preview step changes neither the snapshot, nor the
\* start pointer, nor the store; the commit (the step that sends and ends the
\* gesture) sends applyResize of that same snapshot.
C30_ResizeFromSnapshot ==
  /\ \A c \in Clients :
       activeHandle[c] # Null
         => /\ resizeOriginal[c] = ShapeOf(existingShapes[c], resizeSelectedId[c])
            /\ preview[c] # NoShape
                 => \E dx \in ResizeDeltas, dy \in ResizeDeltas :
                      preview[c] = applyResize(activeHandle[c],
                                     ShapeOf(existingShapes[c], resizeSelectedId[c]), dx, dy)
  /\ [][\A c \in Clients :
          /\ (activeHandle[c] # Null /\ preview'[c] # NoShape /\ preview'[c] # preview[c])
               => /\ resizeOriginal'[c] = resizeOriginal[c]
                  /\ startPointer'[c] = startPointer[c]
                  /\ existingShapes'[c] = existingShapes[c]
          /\ (activeHandle[c] # Null /\ activeHandle'[c] = Null /\ Sends(c))
               => \E dx \in ResizeDeltas, dy \in ResizeDeltas :
                    SentFrame(c).shape =
                      applyResize(activeHandle[c],
                        ShapeOf(existingShapes[c], resizeSelectedId[c]), dx, dy)]_vars

\* C30 witness: a resize gesture has drawn a preview that differs from the
\* snapshot, and the snapshot is still the store's entry.
C30_Witness ==
  /\ activeHandle["c1"] # Null
  /\ preview["c1"] # NoShape
  /\ preview["c1"] # resizeOriginal["c1"]
  /\ resizeOriginal["c1"] = ShapeOf(existingShapes["c1"], resizeSelectedId["c1"])
  /\ ops >= 2

\* Tolerances, in halves of a unit: 0, 0.5, the 1.5 of the Pencil, 4.
Tolerances == {0, 1, 3, 8}

\* C29: for the points a stroke has accepted and every tolerance,
\* simplifyRDP returns a path that starts with the first and ends with the
\* last of them, and so does getPath; simplifyRDP terminates because,
\* whenever it recurses on a run of the points, the point it splits at is
\* an inner one, so both halves are shorter.
C29_EndpointsKept ==
  \A c \in Clients :
    LET pts == points[c]
        n == Len(pts)
    IN  pts # <<>>
          => /\ \A eps2 \in Tolerances :
                  LET r == simplifyRDP(pts, eps2)
                  IN  /\ r # <<>>
                      /\ r[1] = pts[1]
                      /\ r[Len(r)] = pts[n]
             /\ getPath(c) # <<>>
             /\ getPath(c)[1] = pts[1]
             /\ getPath(c)[Len(getPath(c))] = pts[n]
             /\ \A eps2 \in Tolerances : \A i \in 1 .. n : \A j \in (i + 2) .. n :
                  exceeds(SubSeq(pts, i, j), eps2)
                    => farthest(SubSeq(pts, i, j)) \in 2 .. (j - i)

\* C29 witness: a stroke of four accepted points whose path has kept one
\* inner point and dropped the other.
C29_Witness ==
  /\ Len(points["c1"]) = 4
  /\ Len(smoothed["c1"]) = 3
  /\ smoothed["c1"][1] = points["c1"][1]
  /\ smoothed["c1"][3] = points["c1"][4]

\* The number of entries of a store with the id and shape of e.
CountOf(store, e) ==
  Cardinality({i \in 1 .. Len(store) : store[i].id = e.id /\ store[i].shape = e.shape})

\* C31: a reorder event handled by a client leaves a permutation of the
\* store: as many entries as before, and each {id, shape} as often as before.
C31_ReorderPermutes ==
  [][\A c \in Clients :
       LET m == NextFrame(r2c[c])
           old == existingShapes[c]
           new == existingShapes'[c]
       IN  (Handles(c) /\ m.type = "reorder")
           => /\ Len(new) = Len(old)
              /\ \A i \in 1 .. Len(old) : CountOf(new, old[i]) = CountOf(old, old[i])
              /\ \A i \in 1 .. Len(new) : CountOf(old, new[i]) = CountOf(new, new[i])]_vars

\* C32: with both clients joined, their sockets open and every append
\* succeeding, a pending id does not stay in a store for ever, and once the
\* relay has assigned row d to a creation of client c, the store of c comes to
\* hold an entry with id d and the shape of that row.
C32_PendingConfirmed ==
  /\ \A c \in Clients : \A T \in PendingIds :
       (\E i \in 1 .. Len(existingShapes[c]) : existingShapes[c][i].id = T)
         ~> (\A i \in 1 .. Len(existingShapes[c]) : existingShapes[c][i].id # T)
  /\ \A c \in Clients : \A d \in 1 .. (MaxOps + 2) :
       (\E o \in origin : o.conn = c /\ o.dbId = d)
         ~> (\E i \in 1 .. Len(existingShapes[c]) :
               /\ existingShapes[c][i].id = NatToStr(d)
               /\ rowIndex(d) # 0
               /\ existingShapes[c][i].shape = db[rowIndex(d)].shape)

\* C32 witness: both clients have created a shape, each append has succeeded
\* and every store holds the durable entries only.
C32_Witness ==
  /\ Quiescent
  /\ \A c \in Clients : \E o \in origin : o.conn = c
  /\ \A c \in Clients : \A i \in 1 .. Len(existingShapes[c]) :
       existingShapes[c][i].id \notin PendingIds
  /\ \A c \in Clients : \A o \in origin :
       \E i \in 1 .. Len(existingShapes[c]) : existingShapes[c][i].id = NatToStr(o.dbId)

\* C33: a step that sends a frame to a connection is a broadcast made while
\* that connection is registered with the frame's room in its membership; a
\* connection outside the room is sent nothing.
C33_RoomIsolation ==
  [][\A u \in Clients :
       /\ Len(r2c'[u]) > Len(r2c[u])
            => /\ Registered(u)
               /\ Includes(rooms[u], r2c'[u][Len(r2c'[u])].roomId)
       /\ ~Includes(rooms[u], Room) => Len(r2c'[u]) <= Len(r2c[u])]_vars

\* C33 witness: a chat event of the room has reached a member while a
\* registered connection that is in another room only was passed over.
C33_Witness ==
  \E u, v \in Clients :
    /\ Registered(u) /\ Registered(v)
    /\ Includes(rooms[u], Room)
    /\ rooms[v] = <<OtherRoom>>
    /\ r2c[u] # <<>> /\ Head(r2c[u]).roomId = Room
    /\ r2c[v] = <<>>
    /\ v \in missed

\* The number of entries of a connection's membership that are the room.
JoinCount(u, roomId) == Cardinality({j \in 1 .. Len(rooms[u]) : rooms[u][j] = roomId})

\* C38: a broadcast for a room sends its payload exactly once to a registered
\* connection that has joined the room, however many times it joined, and
\* a step that removes the room from a membership removes every entry of it.
C38_MembershipIsASet ==
  [][/\ \A k \in calls :
          (Resumes(k) /\ resumePayload(k) # <<>>)
            => \A u \in Clients :
                 (Registered(u) /\ JoinCount(u, k.roomId) >= 1)
                   => r2c'[u] = Append(r2c[u], resumePayload(k)[1])
     /\ \A c \in Clients :
          (Includes(rooms[c], Room) /\ Len(rooms'[c]) < Len(rooms[c]))
            => ~Includes(rooms'[c], Room)]_vars

\* C38 witness: the one chat event broadcast so far has reached, once, a
\* connection whose membership names the room twice.
C38_Witness ==
  \E u \in Clients :
    /\ Registered(u)
    /\ rooms[u] = <<Room, Room>>
    /\ Cardinality(origin) = 1
    /\ calls = {}
    /\ Len(r2c[u]) = 1

\* C39: the relay issues the persistence call of a chat, update or delete
\* only when the room it names is in the sender's membership, and a handler
\* broadcasts to a room only for a sender whose membership has it.
C39_OnlyMembersWrite ==
  [][/\ \A c \in Clients :
          (Receives(c) /\ calls' # calls)
            => Includes(rooms[c], NextFrame(c2r[c]).roomId)
     /\ \A k \in calls :
          (Resumes(k) /\ r2c' # r2c) => Includes(rooms[k.conn], k.roomId)]_vars

\* C34: while a rectangle is resized, the bounding box of the preview (for a
\* rectangle, the box computeNewBBoxFromHandle returned) has every edge the
\* active handle does not name where the original box has it.
C34_OnlyNamedEdgesMove ==
  \A c \in Clients :
    (activeHandle[c] # Null /\ preview[c] # NoShape /\ resizeOriginal[c].type = "rect")
      => LET o == bboxOf(resizeOriginal[c])
             b == bboxOf(preview[c])
             h == activeHandle[c]
         IN  /\ h \notin {"nw", "w", "sw"} => b.x = o.x
             /\ h \notin {"ne", "e", "se"} => b.x + b.w = o.x + o.w
             /\ h \notin {"nw", "n", "ne"} => b.y = o.y
             /\ h \notin {"sw", "s", "se"} => b.y + b.h = o.y + o.h

\* C35: at every pointer position, Eraser.findShapeAt and SelectTool.findAt
\* answer with the id of a matching entry that no matching entry follows in
\* the order, and with none exactly when no entry matches; a delete the
\* eraser sends names the frontmost entry under some pointer position.
C35_TopmostFirst ==
  /\ \A c \in Clients : \A p \in GamePointers \cup {FarPointer} :
       LET s == existingShapes[c]
           erases(i) == isPointInShape(p.x, p.y, s[i].shape)
           selects(i) == partAt(p.x, p.y, s[i].shape) # "none"
           erased1 == findShapeAt(p.x, p.y, s)
           found == findAt(p.x, p.y, s).id
       IN  /\ (erased1 = Null) <=> (\A i \in 1 .. Len(s) : ~erases(i))
           /\ erased1 # Null
                => \E i \in 1 .. Len(s) :
                     /\ erases(i) /\ s[i].id = erased1
                     /\ \A j \in (i + 1) .. Len(s) : ~erases(j)
           /\ (found = Null) <=> (\A i \in 1 .. Len(s) : ~selects(i))
           /\ found # Null
                => \E i \in 1 .. Len(s) :
                     /\ selects(i) /\ s[i].id = found
                     /\ \A j \in (i + 1) .. Len(s) : ~selects(j)
  /\ [][\A c \in Clients :
          (Sends(c) /\ SentFrame(c).type = "delete")
            => \E p \in GamePointers \cup {FarPointer} :
                 \E i \in 1 .. Len(existingShapes[c]) :
                   /\ isPointInShape(p.x, p.y, existingShapes[c][i].shape)
                   /\ existingShapes[c][i].id = SentFrame(c).id
                   /\ \A j \in (i + 1) .. Len(existingShapes[c]) :
                        ~isPointInShape(p.x, p.y, existingShapes[c][j].shape)]_vars

\* C35 witness: the eraser has removed a shape the Game had drawn over the
\* room's first shape, which is still in the store under the same point.
C35_Witness ==
  /\ selectedTool["c1"] = "eraser"
  /\ \E e \in erased : e.conn = "c1" /\ e.id # "1"
  /\ Len(existingShapes["c1"]) = 1
  /\ existingShapes["c1"][1].id = "1"
  /\ findShapeAt(20, 20, existingShapes["c1"]) = "1"

\* C36: with no reorder sent, no persistence failure, every client joined
\* throughout, and at most one creation by each client, each under an
\* ephemeral id of its own, once nothing is in flight the stores of all
\* clients hold the same sequence of ids.
C36_SameOrder ==
  (/\ Quiescent /\ ~failed /\ JoinedThroughout
   /\ \A o1, o2 \in origin : (o1.tempId = o2.tempId \/ o1.conn = o2.conn) => o1 = o2)
    => \A c1, c2 \in Clients : Ids(existingShapes[c1]) = Ids(existingShapes[c2])

\* C37: between event handlers, a selectedShapeId that is not null is the id
\* of an entry of the store.
C37_SelectionInStore ==
  \A c \in Clients :
    selectedShapeId[c] # Null
      => \E i \in 1 .. Len(existingShapes[c]) : existingShapes[c][i].id = selectedShapeId[c]

\* C40: a client that handles the chat event of a creation another client
\* originated keeps every entry it holds as it is: its store stays as it was
\* or gains the new shape at the end.
C40_OnlyOriginatorReconciles ==
  [][\A c \in Clients :
       LET m == NextFrame(r2c[c])
           old == existingShapes[c]
           new == existingShapes'[c]
       IN  (/\ Handles(c) /\ m.type = "chat"
            /\ \E o \in origin : o.dbId = m.dbId /\ o.conn # c)
           => \/ new = old
              \/ new = Append(old, Stored(NatToStr(m.dbId), m.shape, Undefined))]_vars

====
